---- MODULE Spec2Model ----
(***************************************************************************)
(* Email ingestion core of app-finzas (backend/expenses/email_ingest.py    *)
(* and backend/expenses/email_parsers/*.py): the batch driver              *)
(* process_new_messages, its router, the per-format handlers, and the      *)
(* persistence of Transaction / Stock / PendingTransaction rows.           *)
(*                                                                         *)
(* A raw e-mail is a record of the features the parsers' regular           *)
(* expressions read (labelled fields, subject phrases, addresses);         *)
(* strings the code formats, compares or truncates are TLA+ strings.       *)
(* A Decimal is a record [neg, n, e] standing for (-1)^neg * n / 10^e, so  *)
(* that str(), the product and the rounding of a DecimalField are what     *)
(* Python and the database compute.  Texts are written in ASCII: an        *)
(* accented letter is its letter followed by an apostrophe (co'digo,       *)
(* Do'lares), the decomposed form, which upper() and lower() leave on the  *)
(* letter they change.  A value Python holds as None is <<>> (for         *)
(* numbers), "" (for strings) or 0 (for dates and timestamps).             *)
(***************************************************************************)
EXTENDS Integers, Sequences, FiniteSets, TLC

\* ------------------------------------------------------------------ bounds
MaxMsgs == 2          \* RawMessages the fetcher stores in one behaviour
ParseMsgs == 1        \* the same, in the behaviours that parse written texts

\* --------------------------------------------------------- program constants
ErrMax == 500         \* error_msg[:500]
LinkMax == 1000       \* gmail_confirmation_link = URLField(max_length=1000)
StockAmountLimit == 100000000  \* Stock.amount: max_digits=14, decimal_places=6
Today == 9            \* date.today(), later than every message date used

Users == {"u1", "u2"}
Workers == {1, 2}

\* ------------------------------------------------------------------ strings
X10 == "xxxxxxxxxx"
X100 == X10 \o X10 \o X10 \o X10 \o X10 \o X10 \o X10 \o X10 \o X10 \o X10
X600 == X100 \o X100 \o X100 \o X100 \o X100 \o X100
LongLink == "https://mail-settings.google.com/mail/vf-" \o X600 \o X600
ShortLink == "https://mail-settings.google.com/mail/vf-abc"

\* s[:n]
Trunc(s, n) == IF Len(s) <= n THEN s ELSE SubSeq(s, 1, n)

\* the k-th character of s, as a string ("" past the end of s)
Ch(s, k) == IF k \in 1..Len(s) THEN SubSeq(s, k, k) ELSE ""
\* s[k:]
From(s, k) == SubSeq(s, k, Len(s))
\* s[a-1:b]: the characters a..b of s that exist
Mid(s, a, b) == SubSeq(s, a, IF b > Len(s) THEN Len(s) ELSE b)
\* f applied to the value of x: x is a local variable, computed once
With(x, f(_)) == CHOOSE r \in {f(v) : v \in {x}} : TRUE
\* the least element of a non-empty set of positions: the leftmost match
Leftmost(S) == CHOOSE i \in S : \A j \in S : i <= j

LowerAlpha == "abcdefghijklmnopqrstuvwxyz"
UpperAlpha == "ABCDEFGHIJKLMNOPQRSTUVWXYZ"
IsDigit(c) == c \in {"0", "1", "2", "3", "4", "5", "6", "7", "8", "9"}
IsSpace(c) == c \in {" ", "\t", "\n", "\r"}
\* [A-Z] under re.IGNORECASE
IsAZ(c) == \E k \in 1..26 : c \in {Ch(UpperAlpha, k), Ch(LowerAlpha, k)}

\* str.upper() and str.lower()
\* s with every character that is in the alphabet `from` replaced by the
\* character at the same place of the alphabet `to`
Translate(s, from, to) ==
    LET RECURSIVE Rest(_, _)
        Rest(t, i) ==
            IF i > Len(t) THEN ""
            ELSE With(Ch(t, i), LAMBDA c :
                      IF \E k \in 1..Len(from) : Ch(from, k) = c
                        THEN Ch(to, CHOOSE k \in 1..Len(from) : Ch(from, k) = c)
                        ELSE c) \o Rest(t, i + 1)
    IN  With(s, LAMBDA t : Rest(t, 1))
Upper(s) == Translate(s, LowerAlpha, UpperAlpha)
Lower(s) == Translate(s, UpperAlpha, LowerAlpha)

\* sub in s
Contains(s, sub) ==
    \E i \in 1..(Len(s) - Len(sub) + 1) : SubSeq(s, i, i + Len(sub) - 1) = sub

\* the index of the first character of s at or after i that is not
\* whitespace (Len(s) + 1 when there is none): where \s* stops
RECURSIVE SkipSpace(_, _)
SkipSpace(s, i) ==
    IF IsSpace(Ch(s, i)) THEN SkipSpace(s, i + 1) ELSE i
\* the index after the run of digits that starts at i: where \d* stops
RECURSIVE SkipDigits(_, _)
SkipDigits(s, i) ==
    IF IsDigit(Ch(s, i)) THEN SkipDigits(s, i + 1) ELSE i

\* str.strip()
Strip(s) ==
    LET RECURSIVE RStrip(_, _)
        RStrip(t, k) == IF IsSpace(Ch(t, k)) THEN RStrip(t, k - 1) ELSE k
    IN  With(s, LAMBDA t : SubSeq(t, SkipSpace(t, 1), RStrip(t, Len(t))))

\* str.split(): the words of s
Split(s) ==
    LET RECURSIVE SkipWord(_)
        SkipWord(k) == IF k <= Len(s) /\ ~IsSpace(Ch(s, k))
                         THEN SkipWord(k + 1) ELSE k
        starts == {i \in 1..Len(s) : /\ ~IsSpace(Ch(s, i))
                                      /\ (i = 1 \/ IsSpace(Ch(s, i - 1)))}
        nth(j) == CHOOSE i \in starts :
                      Cardinality({x \in starts : x < i}) = j - 1
    IN  [j \in 1..Cardinality(starts) |->
            SubSeq(s, nth(j), SkipWord(nth(j)) - 1)]

\* the number a string of decimal digits writes
DigitsVal(s) ==
    LET RECURSIVE Val(_)
        Val(n) == IF n = 0 THEN 0
                  ELSE 10 * Val(n - 1)
                       + (CHOOSE k \in 0..9 : ToString(k) = Ch(s, n))
    IN  Val(Len(s))

\* f"{value}" of an optional string: None prints "None"
OrNone(s) == IF s = "" THEN "None" ELSE s

\* Python truthiness of an optional Decimal: None and Decimal(0) are falsy
Falsy(a) == a = <<>> \/ a[1].n = 0

\* ---------------------------------------------------------------- decimals
\* A Decimal: sign, coefficient and number of decimals; Dec(FALSE, 499, 2)
\* is Decimal("4.99").  The digits as written are kept (4.990 is not 4.99).
RECURSIVE Pow10(_)
Pow10(k) == IF k = 0 THEN 1 ELSE 10 * Pow10(k - 1)

Dec(neg, n, e) == [neg |-> neg, n |-> n, e |-> e]
D(n, e) == Dec(FALSE, n, e)

\* a negation that leaves its operand as it is
DecKeep(d) == d

\* -d: the sign flips, except that the negation of a zero is a positive zero
DecNeg(d) == IF d.n = 0 THEN Dec(FALSE, 0, d.e) ELSE Dec(~d.neg, d.n, d.e)

\* a * b, exact (the products of the model stay below the context precision)
DecMul(a, b) == Dec(a.neg # b.neg, a.n * b.n, a.e + b.e)

\* What a DecimalField with the given decimal places stores for d: digits
\* beyond the places are rounded off, ties to the even digit where Django
\* quantizes the value itself (sqlite), away from zero where the database
\* rounds (postgresql).  Fewer decimals than the places store the same number.
QuantizeField(d, places, backend) ==
    IF d.e <= places THEN d
    ELSE LET p == Pow10(d.e - places)
             q == d.n \div p
             r == d.n % p
             up == \/ 2 * r > p
                   \/ 2 * r = p /\ (backend = "postgresql" \/ q % 2 = 1)
         IN  Dec(d.neg, IF up THEN q + 1 ELSE q, places)

\* ------------------------------------------------------------ amount texts
\* Where [-+]?\d+[.,]?\d* matched at position i of s ends (the index after
\* the match), 0 when it does not match there.  The pattern is greedy and
\* what may follow it in the patterns below is never a digit or separator,
\* so giving characters back cannot turn a failure into a match.
NumberEnd(s, i) ==
    LET j == IF Ch(s, i) \in {"-", "+"} THEN i + 1 ELSE i
        k == SkipDigits(s, j)
    IN  IF ~IsDigit(Ch(s, j)) THEN 0
        ELSE SkipDigits(s, IF Ch(s, k) \in {".", ","} THEN k + 1 ELSE k)

\* Decimal(t.replace(',', '.')) of a text sign? digits* separator? digits*
ToDecimal(t) ==
    LET j == IF Ch(t, 1) \in {"-", "+"} THEN 2 ELSE 1
        k == SkipDigits(t, j)
        frac == From(t, k + 1)
    IN  Dec(Ch(t, 1) = "-", DigitsVal(SubSeq(t, j, k - 1) \o frac), Len(frac))

\* re.search(r"[-+]?\d+[\.,]?\d*", monto_raw) and the Decimal of the match
FirstNumber(s) ==
    LET starts == {i \in 1..Len(s) : NumberEnd(s, i) > 0}
        i == Leftmost(starts)
    IN  IF starts = {} THEN <<>>
        ELSE <<ToDecimal(SubSeq(s, i, NumberEnd(s, i) - 1))>>

\* re.search of  number \s* \(aproximadamente \s+ number \s+ USD\)  in
\* monto_raw, case-insensitive: the two numbers as Decimals, <<>> when the
\* text has no such annotation
ApproxMatch(s) ==
    LET kw == "(aproximadamente"
        p(i) == SkipSpace(s, NumberEnd(s, i))
        b(i) == SkipSpace(s, p(i) + Len(kw))
        u(i) == SkipSpace(s, NumberEnd(s, b(i)))
        at(i) == /\ NumberEnd(s, i) > 0
                 /\ Lower(Mid(s, p(i), p(i) + Len(kw) - 1)) = kw
                 /\ b(i) > p(i) + Len(kw)
                 /\ NumberEnd(s, b(i)) > 0
                 /\ u(i) > NumberEnd(s, b(i))
                 /\ Upper(Mid(s, u(i), u(i) + 3)) = "USD)"
        starts == {i \in 1..Len(s) : at(i)}
        i0 == Leftmost(starts)
    IN  IF starts = {} THEN <<>>
        ELSE <<ToDecimal(SubSeq(s, i0, NumberEnd(s, i0) - 1)),
               ToDecimal(SubSeq(s, b(i0), NumberEnd(s, b(i0)) - 1))>>

\* Where (\d+\.?\d*|\.\d+) matched at position i of s ends, 0 for no match
TradeNumberEnd(s, i) ==
    LET k == SkipDigits(s, i)
    IN  IF IsDigit(Ch(s, i))
          THEN SkipDigits(s, IF Ch(s, k) = "." THEN k + 1 ELSE k)
        ELSE IF Ch(s, i) = "." /\ IsDigit(Ch(s, i + 1))
          THEN SkipDigits(s, i + 1)
        ELSE 0

\* Where [A-Z0-9]+(?:\s+[A-Z]+)* matched at position i of s ends, 0 for no
\* match: a run of letters and digits, then words of letters
SymbolEnd(s, i) ==
    LET RECURSIVE Run(_, _)
        Run(k, digitsToo) ==
            IF IsAZ(Ch(s, k)) \/ (digitsToo /\ IsDigit(Ch(s, k)))
              THEN Run(k + 1, digitsToo) ELSE k
        RECURSIVE Words(_)
        Words(k) ==
            LET w == SkipSpace(s, k)
            IN  IF w > k /\ Run(w, FALSE) > w THEN Words(Run(w, FALSE)) ELSE k
    IN  IF Run(i, TRUE) = i THEN 0 ELSE Words(Run(i, TRUE))

\* re.search of (BOUGHT|SOLD)\s+(quantity)\s+(symbol)\s+@\s+(price) in the
\* subject, case-insensitive: <<action, amount, symbol, unitprice>> of the
\* leftmost match, <<>> when the subject does not match
TradeMatch(subject) ==
    LET s == subject
        kwEnd(i) == IF Upper(Mid(s, i, i + 5)) = "BOUGHT" THEN i + 6
                    ELSE IF Upper(Mid(s, i, i + 3)) = "SOLD" THEN i + 4
                    ELSE 0
        q(i) == SkipSpace(s, kwEnd(i))
        qe(i) == TradeNumberEnd(s, q(i))
        y(i) == SkipSpace(s, qe(i))
        ye(i) == SymbolEnd(s, y(i))
        a(i) == SkipSpace(s, ye(i))
        pr(i) == SkipSpace(s, a(i) + 1)
        at(i) == /\ kwEnd(i) > 0
                 /\ q(i) > kwEnd(i) /\ qe(i) > 0
                 /\ y(i) > qe(i) /\ ye(i) > 0
                 /\ a(i) > ye(i) /\ Ch(s, a(i)) = "@"
                 /\ pr(i) > a(i) + 1 /\ TradeNumberEnd(s, pr(i)) > 0
        starts == {i \in 1..Len(s) : at(i)}
        i0 == Leftmost(starts)
    IN  IF starts = {} THEN <<>>
        ELSE <<Upper(SubSeq(s, i0, kwEnd(i0) - 1)),
               ToDecimal(SubSeq(s, q(i0), qe(i0) - 1)),
               Upper(Strip(SubSeq(s, y(i0), ye(i0) - 1))),
               ToDecimal(SubSeq(s, pr(i0), TradeNumberEnd(s, pr(i0)) - 1))>>

\* the amount read with the comma as thousands separator and the period as
\* decimal point
_parse_amount_plain(amount_str) ==
    LET RECURSIVE Keep(_)
        Keep(i) ==
            IF i > Len(amount_str) THEN ""
            ELSE (IF \/ IsSpace(Ch(amount_str, i))
                     \/ Ch(amount_str, i) \in {"$", ","}
                    THEN "" ELSE Ch(amount_str, i)) \o Keep(i + 1)
        t == Keep(1)
        points == {i \in 1..Len(t) : Ch(t, i) = "."}
        digits == {i \in 1..Len(t) : IsDigit(Ch(t, i))}
    IN  IF Cardinality(points) > 1 \/ digits = {}
           \/ Cardinality(points) + Cardinality(digits) # Len(t)
          THEN <<>>
          ELSE <<ToDecimal(t)>>

\* midinero._parse_amount on the text [\d.,]+ the Total pattern captured:
\* "$" and whitespace removed, every period removed, commas turned into the
\* decimal point; <<>> (None) when what is left is not a number
_parse_amount(amount_str) ==
    LET RECURSIVE Keep(_)
        Keep(i) ==
            IF i > Len(amount_str) THEN ""
            ELSE (IF \/ IsSpace(Ch(amount_str, i))
                     \/ Ch(amount_str, i) \in {"$", "."}
                    THEN "" ELSE Ch(amount_str, i)) \o Keep(i + 1)
        t == Keep(1)
        commas == {i \in 1..Len(t) : Ch(t, i) = ","}
        digits == {i \in 1..Len(t) : IsDigit(Ch(t, i))}
    IN  IF Cardinality(commas) > 1 \/ digits = {}
           \/ Cardinality(commas) + Cardinality(digits) # Len(t)
          THEN <<>>
          ELSE <<ToDecimal(t)>>

\* re.search(r"\d{4}\*+\d{4}", line)
HasCardPattern(line) ==
    \E i \in 1..Len(line) :
        LET RECURSIVE Stars(_)
            Stars(k) == IF Ch(line, k) = "*" THEN Stars(k + 1) ELSE k
            d == Stars(i + 4)
        IN  /\ \A k \in i..(i + 3) : IsDigit(Ch(line, k))
            /\ d > i + 4
            /\ \A k \in d..(d + 3) : IsDigit(Ch(line, k))

\* The merchant when the body has no "Comercio:" label: after the first
\* line with a masked card number, the first of the next four lines that is
\* not empty and holds none of the known labels ("" when there is none).
MerchantAfterCard(lines) ==
    LET labels == {"CLAVE:", "FECHA:", "HORA:", "UYU", "USD", "EUR",
                   "RECUERDE"}
        cards == {i \in 1..Len(lines) : HasCardPattern(lines[i])}
        i == Leftmost(cards)
        last == IF i + 4 < Len(lines) THEN i + 4 ELSE Len(lines)
        J == {j \in (i + 1)..last :
                /\ Strip(lines[j]) # ""
                /\ \A l \in labels : ~Contains(Upper(Strip(lines[j])), l)}
    IN  IF cards = {} \/ J = {} THEN "" ELSE Strip(lines[Leftmost(J)])

\* Decimal(text.replace(',', '')) of a capture of digits, commas and
\* periods: <<>> when Decimal raises InvalidOperation (no digit, or more
\* than one period)
CommaDecimal(text) ==
    LET RECURSIVE Keep(_)
        Keep(i) ==
            IF i > Len(text) THEN ""
            ELSE (IF Ch(text, i) = "," THEN "" ELSE Ch(text, i)) \o Keep(i + 1)
    IN  With(Keep(1), LAMBDA t :
            IF \/ Cardinality({i \in 1..Len(t) : Ch(t, i) = "."}) > 1
               \/ {i \in 1..Len(t) : IsDigit(Ch(t, i))} = {}
              THEN <<>>
              ELSE <<ToDecimal(t)>>)

\* the index after the run of digits and the given separators that starts
\* at i: where [\d,]* and [\d,\.]* stop
AmountRunEnd(s, i, seps) ==
    LET RECURSIVE Run(_)
        Run(k) == IF IsDigit(Ch(s, k)) \/ Ch(s, k) \in seps
                    THEN Run(k + 1) ELSE k
    IN  Run(i)

\* where [\d,]+(?:\.\d{2})? matched at position i of s ends, 0 for no match
DollarsEnd(s, i) ==
    LET e == AmountRunEnd(s, i, {","})
    IN  IF e = i THEN 0
        ELSE IF Ch(s, e) = "." /\ IsDigit(Ch(s, e + 1)) /\ IsDigit(Ch(s, e + 2))
          THEN e + 3
        ELSE e

\* re.search of  You have a direct deposit of \s* tag? \$? \s* ([\d,\.]+)
\* in the body, case-insensitive: <<capture>> of the leftmost match, <<>>
\* when the body does not match
DepositMatch(body) ==
    With(Lower(body), LAMBDA low :
    LET kw == "you have a direct deposit of"
        closes(i) == {k \in (i + 1)..Len(body) : Ch(body, k) = ">"}
        tag(i) == IF Ch(body, i) = "<" /\ closes(i) # {}
                    THEN Leftmost(closes(i)) + 1 ELSE i
        a(i) == tag(SkipSpace(body, i + Len(kw)))
        b(i) == SkipSpace(body, IF Ch(body, a(i)) = "$" THEN a(i) + 1 ELSE a(i))
        at(i) == /\ Mid(low, i, i + Len(kw) - 1) = kw
                 /\ AmountRunEnd(body, b(i), {",", "."}) > b(i)
        starts == {i \in 1..Len(body) : at(i)}
        i0 == Leftmost(starts)
    IN  IF starts = {} THEN <<>>
        ELSE <<SubSeq(body, b(i0), AmountRunEnd(body, b(i0), {",", "."}) - 1)>>)

\* re.search of  Your bill payment of \$(amount)\s+to\s+([^\n<]+)  in the
\* body, case-insensitive: <<amount text, merchant text>> of the leftmost
\* match, <<>> when the body does not match.  The whitespace before the
\* merchant gives characters back until the merchant has one to start with.
PaymentMatch(body) ==
    With(Lower(body), LAMBDA low :
    LET kw == "your bill payment of $"
        stop == {"", "\n", "<"}
        a(i) == i + Len(kw)
        e(i) == DollarsEnd(body, a(i))
        w(i) == SkipSpace(body, e(i))
        v(i) == w(i) + 2
        x(i) == SkipSpace(body, v(i))
        P(i) == {p \in (v(i) + 1)..x(i) : Ch(body, p) \notin stop}
        g(i) == CHOOSE p \in P(i) : \A q \in P(i) : q <= p
        RECURSIVE GroupEnd(_)
        GroupEnd(k) == IF Ch(body, k) \in stop THEN k ELSE GroupEnd(k + 1)
        at(i) == /\ Mid(low, i, i + Len(kw) - 1) = kw
                 /\ e(i) > 0
                 /\ w(i) > e(i)
                 /\ Mid(low, w(i), w(i) + 1) = "to"
                 /\ P(i) # {}
        starts == {i \in 1..Len(body) : at(i)}
        i0 == Leftmost(starts)
    IN  IF starts = {} THEN <<>>
        ELSE <<SubSeq(body, a(i0), e(i0) - 1),
               SubSeq(body, g(i0), GroupEnd(g(i0)) - 1)>>)

\* re.search(r'\$?([\d,]+(?:\.\d{2})?)', body): <<capture>> of the leftmost
\* match, <<>> when the body has no digit and no comma
DollarsMatch(body) ==
    LET starts == {i \in 1..Len(body) : DollarsEnd(body, i) > 0}
        i0 == Leftmost(starts)
    IN  IF starts = {} THEN <<>>
        ELSE <<SubSeq(body, i0, DollarsEnd(body, i0) - 1)>>

\* ------------------------------------------------------------ addresses
GmailAddr == "forwarding-noreply@google.com"
ChaseAddr == "no.reply.alerts@chase.com"
IbkrAddr == "tradingassistant@interactivebrokers.com"
VisaAddr == "donotreplyalertadecomprasvisa@visa.com"
MidineroAddr == "noreply@midinero.com.uy"
OtherMidineroAddr == "avisos@midinero.uy"
OtherAddr == "someone@example.com"

\* `needle in address` for the needles the router and the detector test
AddrContains(addr, needle) ==
    \/ addr = needle
    \/ needle = "midinero" /\ addr \in {MidineroAddr, OtherMidineroAddr}

\* --------------------------------------------------------------- raw e-mails
\* The features of raw_eml the parsers read.  mid is the Message-ID header,
\* malformed > 0 is a message mailparser cannot parse (the number is the
\* length of the text of the exception it raises).  text is the amount as
\* the body writes it (the value of Monto, the capture of Total Pesos),
\* lines is body_text.splitlines() and clave the security code the body of a
\* point-of-sale alert shows; monto, aprox, total and trade are what the
\* parsers' patterns find in those texts.  deposit, payment and generic are
\* the texts the three patterns of the bank parser capture in the body
\* (<<>>: no match) and merchant the second group of the payment pattern.
BlankRaw ==
    [ malformed |-> 0, mid |-> "<m1>", fromHdr |-> {}, bodyAddrs |-> {},
      hasMidineroDomain |-> FALSE, link |-> "",
      comercio |-> "", tarjeta |-> "", moneda |-> "", monto |-> <<>>,
      aprox |-> <<>>, institucion |-> "", text |-> "", lines |-> <<>>,
      clave |-> "",
      deposit |-> <<>>, payment |-> <<>>, merchant |-> "", generic |-> <<>>,
      trade |-> <<>>, card |-> <<>>, lineCur |-> "", lineAmt |-> <<>>,
      fecha |-> 0, total |-> <<>>, cuenta |-> "", subject |-> "Alert" ]

\* A RawMessage as the fetcher stores it: not processed, no error, no link.
Msg(user, addr, subject, date, raw) ==
    [ user |-> user, from_address |-> [name |-> "Alerts", addr |-> addr],
      subject |-> subject, date |-> date, raw |-> raw,
      processed_at |-> 0, processing_error |-> "",
      gmail_confirmation_link |-> "" ]

\* subject phrases (lower-cased) the router and the parsers look for
GmailSubject == {"confirmation", "forwarding"}
ChaseSubject == {"direct deposit"}
VisaSubject == {"visa"}
AlignetSubject == {"co'digo de seguridad"}
ConsumoSubject == {"aviso consumo por"}
RecargaSubject == {"aviso recarga por"}

VisaRaw == [BlankRaw EXCEPT !.fromHdr = {VisaAddr}, !.comercio = "ACME",
                            !.tarjeta = "3048", !.moneda = "USD",
                            !.text = "4.99", !.monto = <<D(499, 2)>>]
ChaseRaw == [BlankRaw EXCEPT !.fromHdr = {ChaseAddr},
                             !.text = "You have a direct deposit of $1,200.00",
                             !.deposit = <<"1,200.00">>,
                             !.generic = <<"1,200.00">>]
IbkrRaw == [BlankRaw EXCEPT !.fromHdr = {IbkrAddr},
                            !.subject = "BOUGHT 10 AAPL @ 150.50",
                            !.trade = <<"BOUGHT", D(10, 0), "AAPL", D(15050, 2)>>]
AlignetRaw == [BlankRaw EXCEPT !.card = <<<<4, 1, 1, 1>>, "1111">>,
                               !.lineCur = "UYU", !.lineAmt = <<D(430730, 2)>>,
                               !.comercio = "TIENDA", !.fecha = 3]
MidineroRaw == [BlankRaw EXCEPT !.fromHdr = {MidineroAddr},
                                !.hasMidineroDomain = TRUE,
                                !.moneda = "Pesos Uruguayos",
                                !.text = "1.234,56",
                                !.total = <<D(123456, 2)>>, !.cuenta = "123456"]

\* a card-network alert whose body has "Moneda: <moneda>" and "Monto: <monto>"
\* (an empty text: the body has no such field)
VisaText(moneda, monto) ==
    [VisaRaw EXCEPT !.moneda = moneda, !.text = monto,
                    !.monto = FirstNumber(monto), !.aprox = ApproxMatch(monto)]

\* a bank alert with the given body text
ChaseText(body) ==
    LET payment == PaymentMatch(body)
    IN  [ChaseRaw EXCEPT !.text = body, !.deposit = DepositMatch(body),
                         !.payment = IF payment = <<>> THEN <<>>
                                     ELSE <<payment[1]>>,
                         !.merchant = IF payment = <<>> THEN ""
                                      ELSE payment[2],
                         !.generic = DollarsMatch(body)]

\* a brokerage message with the given subject line
TradeText(subject) ==
    [IbkrRaw EXCEPT !.subject = subject, !.trade = TradeMatch(subject)]

\* a mobile-wallet alert with the given currency label and Total Pesos text
MidineroText(moneda, total) ==
    [MidineroRaw EXCEPT !.moneda = moneda, !.text = total,
                        !.total = _parse_amount(total)]

\* the body of a point-of-sale security-code alert, in the layouts the
\* plain-text part of such a mail takes: the code after its label on one
\* line, the label and the code on two lines, the code after another label
AlignetText(layout, clave, comercio) ==
    LET lines ==
          IF layout = "inline"
            THEN <<"Tarjeta 4111********1111", "TIENDA", "UYU 4307.30",
                   "Clave: " \o clave, "Fecha: 03/01/2026">>
          ELSE IF layout = "two lines"
            THEN <<"4111********1111", "Clave:", clave, "TIENDA",
                   "UYU 4307.30">>
          ELSE <<"4111********1111", "Co'digo de seguridad: " \o clave,
                 "TIENDA", "UYU 4307.30">>
    IN  [AlignetRaw EXCEPT !.comercio = comercio, !.clave = clave,
                           !.lines = lines]

\* a security-code alert whose body shows the given masked card number:
\* card holds the digits before the asterisks and the four digits after them
CardText(number) ==
    LET stars == {i \in 1..Len(number) : Ch(number, i) = "*"}
        first == Leftmost(stars)
        last == CHOOSE i \in stars : \A j \in stars : j <= i
        lead == [k \in 1..(first - 1) |-> DigitsVal(Ch(number, k))]
    IN  [AlignetRaw EXCEPT !.card = <<lead, SubSeq(number, last + 1, last + 4)>>]

GmailMsgs ==
    { Msg("u1", GmailAddr, GmailSubject, 5, [BlankRaw EXCEPT !.link = l]) :
        l \in {"", LongLink} }
    \cup { Msg("u1", GmailAddr, GmailSubject \cup VisaSubject, 5,
               [VisaRaw EXCEPT !.link = ShortLink]) }

ChaseMsgs ==
    { Msg("u1", ChaseAddr, ChaseSubject, 5, ChaseRaw),
      Msg("u1", ChaseAddr, ChaseSubject, 5,
          [ChaseRaw EXCEPT !.deposit = <<>>, !.generic = <<>>]) }

IbkrMsgs ==
    { Msg("u1", IbkrAddr, {}, 5, IbkrRaw),
      Msg("u2", IbkrAddr, {}, 5, IbkrRaw),
      Msg("u1", IbkrAddr, {}, 0, [IbkrRaw EXCEPT !.mid = ""]),
      Msg("u1", IbkrAddr, VisaSubject, 5,
          [IbkrRaw EXCEPT !.subject = "Visa card order", !.trade = <<>>]),
      Msg("u1", IbkrAddr, {}, 5,
          [IbkrRaw EXCEPT !.subject = "SOLD 100000000 XYZ @ 1",
                          !.trade = <<"SOLD", D(100000000, 0), "XYZ", D(1, 0)>>,
                          !.mid = "<m2>"]) }

VisaMsgs ==
    { Msg("u1", VisaAddr, VisaSubject, 5, VisaRaw),
      Msg("u2", VisaAddr, VisaSubject, 5, VisaRaw),
      Msg("u1", VisaAddr, VisaSubject, 5, [VisaRaw EXCEPT !.mid = ""]),
      Msg("u1", VisaAddr, VisaSubject, 5, VisaText("USD", "")),
      Msg("u1", VisaAddr, VisaSubject, 5, VisaText("", "4.99")),
      Msg("u1", VisaAddr, VisaSubject, 5, VisaText("USD", "0.00")),
      Msg("u1", OtherAddr, VisaSubject \cup AlignetSubject, 5,
          [VisaRaw EXCEPT !.fromHdr = {}]),
      Msg("u1", VisaAddr, VisaSubject, 5, [VisaRaw EXCEPT !.malformed = 600]) }

AlignetMsgs ==
    { Msg("u1", OtherAddr, AlignetSubject, 5, AlignetRaw),
      Msg("u1", OtherAddr, AlignetSubject, 5,
          [AlignetRaw EXCEPT !.lineCur = "", !.lineAmt = <<>>]) }

MidineroMsgs ==
    { Msg("u1", MidineroAddr, ConsumoSubject, 5, MidineroRaw),
      Msg("u1", MidineroAddr, RecargaSubject, 5,
          [MidineroRaw EXCEPT !.fecha = 4, !.mid = "<m2>"]),
      Msg("u1", OtherMidineroAddr, {}, 5, MidineroRaw) }

OtherMsgs ==
    { Msg("u1", OtherAddr, {}, 5, BlankRaw) }

\* the messages the fetcher may store
Inbox ==
    GmailMsgs \cup ChaseMsgs \cup IbkrMsgs \cup VisaMsgs \cup AlignetMsgs
    \cup MidineroMsgs \cup OtherMsgs

\* ------------------------------------------------------- messages as texts
\* The messages the fetcher may store, written as texts: card-network alerts
\* (from the card network and from another sender), brokerage subjects,
\* mobile-wallet alerts of the three formats, security-code alerts, bank
\* alerts, forwarding confirmations, and a message from an unknown address
\* of 485 characters (from_address = CharField(max_length=500)).
ParseInbox ==
    { Msg("u1", VisaAddr, VisaSubject, 5, VisaText(c, t)) :
        c \in {"EUR", "USD", "UYU", "eur", ""},
        t \in {"4.99 (aproximadamente 6.05 USD)", "4.99", ""} }
    \cup { Msg("u1", VisaAddr, VisaSubject, 5, VisaText(c[1], c[2])) :
             c \in { <<"BRL", "4,99 (Aproximadamente 6,05 usd)">>,
                     <<"CLP", "12,5">>,
                     <<"BRL", "consulte su estado de cuenta">> } }
    \cup { Msg("u1", OtherAddr, VisaSubject, 5,
               [VisaText(c, t) EXCEPT !.fromHdr = {}]) :
             c \in {"USD", ""}, t \in {"4.99", ""} }
    \cup { Msg("u1", IbkrAddr, {}, 5, TradeText(t)) :
             t \in { "BOUGHT 10 AAPL @ 150.50", "SOLD 5.5 MSFT @ 300.25",
                     "Fwd: sold 5 msft @ 300.25 USD", "BOUGHT 0.5 VT @ 0.25",
                     "SOLD 3 BRK B @ 410.12345", "BOUGHT 1,000 AAPL @ 150.50",
                     "BOUGHT 10 AAPL @150.50", "Your order was filled", "" } }
    \cup { Msg("u1", MidineroAddr, k, 5, MidineroText(c[1], c[2])) :
             k \in {ConsumoSubject, RecargaSubject,
                    {"tu transferencia ha sido acreditada"}},
             c \in { <<"Pesos Uruguayos", "1.234,56">>, <<"Do'lares", "500">>,
                     <<"", "1.000.000,00">>, <<"Guarani'es", "99,90">>,
                     <<"Pesos", "1,2,3">>, <<"usd", "12,5">> } }
    \cup { Msg("u1", OtherAddr, AlignetSubject, 5, AlignetText(l, k, "")) :
             l \in {"inline", "two lines", "other label"},
             k \in {"839201", "555000"} }
    \cup { Msg("u1", OtherAddr, AlignetSubject, 5,
               AlignetText("two lines", "839201", "TIENDA")) }
    \cup { Msg("u1", OtherAddr, AlignetSubject, 5, CardText(n)) :
             n \in { "411111******1111", "51234*******0001",
                     "622500******1234", "6011********0004",
                     "3714********0005" } }
    \cup { Msg("u1", ChaseAddr, ChaseSubject, 5, ChaseText(b)) :
             b \in
             { "You have a direct deposit of $1,200.00",
               "You have a direct deposit of $1,200.00.",
               "you have a direct deposit of <b>$75</b> today",
               "Your bill payment of $45.10 to City Power\nThank you",
               "You have a direct deposit of $50\nYour bill payment of $45.10 to Gas Co",
               "Account ending 1234: balance $310.00",
               "Nothing to report" } }
    \cup { Msg("u1", GmailAddr, GmailSubject, 5, [BlankRaw EXCEPT !.link = l]) :
             l \in {"", ShortLink, LongLink} }
    \cup { Msg("u1", SubSeq(X600, 1, 473) \o "@example.com", {}, 5, BlankRaw) }

\* ------------------------------------------------------------------ router
\* parseaddr(msg.from_address)[1].lower(): the address without the display name
ParseAddr(from_address) == from_address.addr

is_gmail_forwarding_confirmation(from_lower, subject) ==
    /\ AddrContains(from_lower, GmailAddr)
    /\ ("confirmacio'n" \in subject \/ "confirmation" \in subject)
    /\ ("reenvi'o" \in subject \/ "forwarding" \in subject)

\* the chain with the security-code rule tried before the card-network rule
RouteAlignetFirst(m) ==
    LET envelope_from == ParseAddr(m.from_address)
        subject == m.subject
    IN  IF is_gmail_forwarding_confirmation(envelope_from, subject)
          THEN "gmail"
        ELSE IF envelope_from = ChaseAddr
                /\ ("direct deposit" \in subject \/ "bill payment" \in subject)
          THEN "chase"
        ELSE IF envelope_from = IbkrAddr
          THEN "ibkr"
        ELSE IF "alignet" \in subject \/ "co'digo de seguridad" \in subject
          THEN "alignet"
        ELSE IF AddrContains(envelope_from, VisaAddr) \/ "visa" \in subject
          THEN "visa"
        ELSE IF \/ envelope_from = MidineroAddr
                \/ AddrContains(envelope_from, "midinero")
                \/ m.raw.hasMidineroDomain
          THEN "midinero"
        ELSE "unrecognized"

\* the if / elif chain of process_new_messages: the first rule that matches
Route(m) ==
    LET envelope_from == ParseAddr(m.from_address)
        subject == m.subject
    IN  IF is_gmail_forwarding_confirmation(envelope_from, subject)
          THEN "gmail"
        ELSE IF envelope_from = ChaseAddr
                /\ ("direct deposit" \in subject \/ "bill payment" \in subject)
          THEN "chase"
        ELSE IF envelope_from = IbkrAddr
          THEN "ibkr"
        ELSE IF AddrContains(envelope_from, VisaAddr) \/ "visa" \in subject
          THEN "visa"
        ELSE IF "alignet" \in subject \/ "co'digo de seguridad" \in subject
          THEN "alignet"
        ELSE IF \/ envelope_from = MidineroAddr
                \/ AddrContains(envelope_from, "midinero")
                \/ m.raw.hasMidineroDomain
          THEN "midinero"
        ELSE "unrecognized"

\* ------------------------------------------------------------ exceptions
Exc(kind, text) == [kind |-> kind, text |-> text]
NoExc == Exc("", "")
\* mailparser.parse_from_bytes on bytes it cannot parse
MailParserError(n) == Exc("MailParserError", SubSeq(X600, 1, n))
IndexError == Exc("IndexError", "list index out of range")
AttributeError ==
    Exc("AttributeError", "'datetime.date' object has no attribute 'date'")
JsonTypeError ==
    Exc("TypeError", "Object of type Decimal is not JSON serializable")
IntegrityError == Exc("IntegrityError", "UNIQUE constraint failed")

\* ------------------------------------------------------------ candidates
BlankCand ==
    [ description |-> "", source |-> "", currency |-> "", amount |-> <<>>,
      comments |-> "", external_id |-> "", date |-> 0, symbol |-> "",
      bought |-> FALSE, unitprice |-> <<>>, total_value |-> <<>> ]

Parsed(c) == [tag |-> "ok", c |-> c, exc |-> NoExc]
ParsedNone == [tag |-> "none", c |-> BlankCand, exc |-> NoExc]
ParseRaises(e) == [tag |-> "raise", c |-> BlankCand, exc |-> e]

\* str(Decimal): the sign, the integer digits and all the decimals
DecStr(d) ==
    LET p == Pow10(d.e)
        frac == ToString(d.n % p)
    IN  (IF d.neg THEN "-" ELSE "") \o ToString(d.n \div p)
        \o (IF d.e = 0 THEN ""
            ELSE "." \o SubSeq("000000000", 1, d.e - Len(frac)) \o frac)
AmountStr(a) == IF a = <<>> THEN "None" ELSE DecStr(a[1])

\* only USD keeps its own amount
KeepsOnlyUSD(currency) == currency = "USD"

\* currency in ['USD', 'UYU']: the currencies whose own amount is kept even
\* when the Monto field has an approximate USD value
KeepsOwnAmount(currency) == currency \in {"USD", "UYU"}

parse_visa_alert(raw) ==
    IF raw.malformed > 0 THEN ParseRaises(MailParserError(raw.malformed))
    ELSE IF Split(raw.moneda) = <<>> THEN ParseRaises(IndexError)
    ELSE With(Upper(Split(raw.moneda)[1]), LAMBDA moneda :
      LET description == IF raw.comercio # "" THEN raw.comercio ELSE raw.subject
          source == IF raw.tarjeta # "" THEN "visa:" \o raw.tarjeta ELSE ""
          approx == raw.aprox # <<>> /\ ~KeepsOwnAmount(moneda)
          amount == IF approx THEN <<raw.aprox[2]>> ELSE raw.monto
          currency == IF approx THEN "USD" ELSE moneda
          comments == IF approx
                        THEN "Original: " \o DecStr(raw.aprox[1]) \o " "
                             \o moneda
                        ELSE ""
          external_id == IF raw.mid # "" THEN raw.mid
                         ELSE "visa:" \o description \o ":" \o OrNone(source)
                              \o ":" \o AmountStr(amount) \o ":" \o currency
      IN  Parsed([BlankCand EXCEPT !.description = description,
                                   !.source = source, !.currency = currency,
                                   !.amount = amount, !.comments = comments,
                                   !.external_id = external_id]))

parse_chase_alert(raw) ==
    IF raw.malformed > 0 THEN ParseRaises(MailParserError(raw.malformed))
    ELSE
      LET fromDeposit == IF raw.deposit # <<>>
                           THEN CommaDecimal(raw.deposit[1]) ELSE <<>>
          fromPayment == IF raw.deposit = <<>> /\ raw.payment # <<>>
                           THEN CommaDecimal(raw.payment[1]) ELSE <<>>
          fromGeneric == IF fromDeposit = <<>> /\ fromPayment = <<>>
                            /\ raw.generic # <<>>
                           THEN CommaDecimal(raw.generic[1]) ELSE <<>>
          matched == IF fromDeposit # <<>> THEN "deposit"
                     ELSE IF fromPayment # <<>> THEN "payment"
                     ELSE IF fromGeneric # <<>> THEN "generic" ELSE "none"
          amount == IF matched = "deposit" THEN <<DecNeg(fromDeposit[1])>>
                    ELSE IF matched = "payment" THEN fromPayment
                    ELSE IF matched = "generic" THEN fromGeneric ELSE <<>>
          description ==
              IF matched = "deposit" THEN "DIRECT DEPOSIT"
              ELSE IF matched = "payment"
                THEN "BILL PAYMENT: " \o Strip(raw.merchant)
              ELSE IF matched = "generic"
                THEN (IF raw.subject # "" THEN raw.subject
                      ELSE "Chase transaction")
              ELSE ""
          external_id == IF raw.mid # "" THEN raw.mid
                         ELSE "chase:" \o description \o ":" \o AmountStr(amount)
      IN  Parsed([BlankCand EXCEPT !.description = description,
                                   !.source = "chase", !.currency = "USD",
                                   !.amount = amount,
                                   !.external_id = external_id])

\* the trade parser without the generated identifier
parse_ibkr_trade_header_only(raw) ==
    IF raw.malformed > 0 THEN ParseRaises(MailParserError(raw.malformed))
    ELSE IF raw.trade = <<>> THEN ParsedNone
    ELSE
      LET amount == raw.trade[2]
          unitprice == raw.trade[4]
      IN  Parsed([BlankCand EXCEPT !.symbol = raw.trade[3],
                                   !.bought = (raw.trade[1] = "BOUGHT"),
                                   !.amount = <<amount>>,
                                   !.unitprice = <<unitprice>>,
                                   !.total_value =
                                       <<DecMul(amount, unitprice)>>,
                                   !.external_id = raw.mid])

\* parsed["amount"] of a trade is the number of shares
parse_ibkr_trade(raw) ==
    IF raw.malformed > 0 THEN ParseRaises(MailParserError(raw.malformed))
    ELSE IF raw.trade = <<>> THEN ParsedNone
    ELSE
      LET action == raw.trade[1]
          amount == raw.trade[2]
          symbol == raw.trade[3]
          unitprice == raw.trade[4]
          external_id == IF raw.mid # "" THEN raw.mid
                         ELSE "ibkr:" \o action \o ":" \o symbol \o ":"
                              \o DecStr(amount) \o ":" \o DecStr(unitprice)
      IN  Parsed([BlankCand EXCEPT !.symbol = symbol,
                                   !.bought = (action = "BOUGHT"),
                                   !.amount = <<amount>>,
                                   !.unitprice = <<unitprice>>,
                                   !.total_value =
                                       <<DecMul(amount, unitprice)>>,
                                   !.external_id = external_id])

\* the number a sequence of decimal digits writes
DigitsInt(d) ==
    LET RECURSIVE Val(_)
        Val(n) == IF n = 0 THEN 0 ELSE 10 * Val(n - 1) + d[n]
    IN  Val(Len(d))

_detect_card_type(digits) ==
    IF Len(digits) < 2 THEN "unknown"
    ELSE
      LET first_two == DigitsInt(SubSeq(digits, 1, 2))
          has4 == Len(digits) >= 4
          first_four == IF has4 THEN DigitsInt(SubSeq(digits, 1, 4)) ELSE 0
      IN  IF digits[1] = 4 THEN "visa"
          ELSE IF first_two \in 51..55 THEN "mastercard"
          ELSE IF has4 /\ first_four \in 2221..2720 THEN "mastercard"
          ELSE IF first_two \in {34, 37} THEN "amex"
          ELSE IF has4 /\ first_four = 6011 THEN "discover"
          ELSE IF first_two = 65 THEN "discover"
          ELSE IF Len(digits) >= 3
                  /\ DigitsInt(SubSeq(digits, 1, 3)) \in 644..649
            THEN "discover"
          ELSE IF Len(digits) >= 6
                  /\ DigitsInt(SubSeq(digits, 1, 6)) \in 622126..622925
            THEN "discover"
          ELSE "unknown"

\* (\d{4})\*+(\d{4}): the four digits right before the asterisks
CardFirstFour(lead) == SubSeq(lead, Len(lead) - 3, Len(lead))

parse_alignet_alert(raw) ==
    IF raw.malformed > 0 THEN ParseRaises(MailParserError(raw.malformed))
    ELSE
      LET comercio == IF raw.comercio # "" THEN raw.comercio
                      ELSE MerchantAfterCard(raw.lines)
          description == IF comercio # "" THEN comercio
                         ELSE IF raw.subject # "" THEN raw.subject
                         ELSE "Alignet Transaction"
          source == IF raw.card # <<>>
                      THEN _detect_card_type(CardFirstFour(raw.card[1]))
                           \o ":" \o raw.card[2]
                      ELSE "alignet"
          moneda == IF raw.moneda = "" THEN ""
                    ELSE Upper(Split(raw.moneda)[1])
          labelled == moneda # "" /\ ~Falsy(raw.monto)
          useLine == ~labelled /\ raw.lineCur # ""
          currency == IF useLine THEN raw.lineCur ELSE moneda
          amount == IF useLine THEN raw.lineAmt ELSE raw.monto
          datestr == IF raw.fecha = 0 THEN "None" ELSE ToString(raw.fecha)
          external_id == IF raw.mid # "" THEN raw.mid
                         ELSE "alignet:" \o datestr \o ":" \o source \o ":"
                              \o AmountStr(amount) \o ":" \o OrNone(currency)
      IN  Parsed([BlankCand EXCEPT !.description = description,
                                   !.source = source, !.currency = currency,
                                   !.amount = amount, !.date = raw.fecha,
                                   !.external_id = external_id])

\* currency_text.upper().strip(), then the direct codes, then the first
\* mapping key (in the order of the dict) the text contains, UYU otherwise
_normalize_currency(currency_text) ==
    With(Strip(Upper(currency_text)), LAMBDA text :
    LET mappings == << <<"URUGUAYAN PESOS", "UYU">>, <<"PESOS URUGUAYOS", "UYU">>,
                       <<"PESOS", "UYU">>, <<"US DOLLARS", "USD">>,
                       <<"DOLARES", "USD">>, <<"DO'LARES", "USD">>,
                       <<"DOLLARS", "USD">>, <<"EUROS", "EUR">>,
                       <<"REALES", "BRL">> >>
        hits == {k \in 1..Len(mappings) : Contains(text, mappings[k][1])}
    IN  IF currency_text = "" THEN "UYU"
        ELSE IF text \in {"UYU", "USD", "EUR", "BRL"} THEN text
        ELSE IF hits # {} THEN mappings[Leftmost(hits)][2]
        ELSE "UYU")

_is_midinero_email(raw) ==
    MidineroAddr \in raw.fromHdr \/ MidineroAddr \in raw.bodyAddrs

MidineroKind(subject) ==
    IF "aviso consumo por" \in subject THEN "consumption"
    ELSE IF "aviso recarga por" \in subject THEN "reload"
    ELSE IF "tu transferencia ha sido acreditada" \in subject THEN "transfer"
    ELSE "none"

\* parse_midinero_consumption / _reload / _transfer, chosen by the subject
parse_midinero_alert(raw, subject) ==
    IF raw.malformed > 0 THEN ParseRaises(MailParserError(raw.malformed))
    ELSE IF ~_is_midinero_email(raw) THEN ParsedNone
    ELSE IF MidineroKind(subject) = "none" THEN ParsedNone
    ELSE
      LET kind == MidineroKind(subject)
          amount == IF raw.total = <<>> THEN <<>>
                    ELSE IF kind = "reload" THEN <<DecNeg(raw.total[1])>>
                    ELSE raw.total
          currency == IF raw.moneda # "" THEN _normalize_currency(raw.moneda)
                      ELSE "UYU"
          description ==
              IF kind = "reload" THEN "Recarga Midinero"
              ELSE IF kind = "transfer"
                THEN (IF raw.institucion # ""
                        THEN "Transferencia a " \o raw.institucion
                        ELSE "Transferencia Midinero")
              ELSE IF raw.comercio # "" THEN raw.comercio
              ELSE IF raw.subject # "" THEN raw.subject
              ELSE "Consumo Midinero"
          datestr == IF raw.fecha = 0 THEN "None" ELSE ToString(raw.fecha)
          external_id == IF raw.mid # "" THEN raw.mid
                         ELSE "midinero:" \o kind \o ":" \o datestr \o ":"
                              \o AmountStr(amount)
      IN  Parsed([BlankCand EXCEPT !.description = description,
                                   !.source = IF raw.cuenta # ""
                                                THEN "midinero:" \o raw.cuenta
                                                ELSE "",
                                   !.currency = currency, !.amount = amount,
                                   !.date = raw.fecha,
                                   !.external_id = external_id])

\* ------------------------------------------------------------- persistence
\* db is the record [txs, stocks, pendings, sources]: the rows of
\* Transaction, Stock, PendingTransaction (in insertion order, id = index)
\* and the Source names per user.  The field msg of a row is not a column:
\* it remembers which RawMessage the row was created from.
\* The backend of the deployment is not fixed by the code: where its
\* behaviour differs, a step takes either outcome.
Backends == {"sqlite", "postgresql"}

\* a duplicate check that looks at the Transactions of every owner
TxExistsAnyOwner(db, user, external_id) ==
    \E k \in 1..Len(db.txs) : db.txs[k].external_id = external_id

TxExists(db, user, external_id) ==
    \E k \in 1..Len(db.txs) :
        db.txs[k].user = user /\ db.txs[k].external_id = external_id

StockExists(db, user, external_id) ==
    \E k \in 1..Len(db.stocks) :
        db.stocks[k].user = user /\ db.stocks[k].external_id = external_id

\* Transaction.Meta and Stock.Meta declare indexes only: no unique constraint
\* on (user, external_id), so an insert is never rejected as a duplicate.
TxInsertRejected(db, row) == FALSE
StockInsertRejected(db, row) == FALSE

\* Stock.amount has 14 digits, 6 of them decimals: 9 integer digits overflow
StockAmountOverflows(amount) ==
    amount.n \div Pow10(amount.e) >= StockAmountLimit

DecimalOverflow(backend) ==
    IF backend = "sqlite"
      THEN Exc("InvalidOperation", "[<class 'decimal.InvalidOperation'>]")
      ELSE Exc("DataError", "numeric field overflow")

\* whether the backend refuses a varchar value longer than the column
EnforcesLength(backend) == backend = "postgresql"
LinkTooLong == Exc("DataError",
                   "value too long for type character varying(1000)")

\* payload = models.JSONField() is written with json.dumps and the default
\* encoder, which refuses Decimal values (amount, unitprice, total_value)
JsonSerializable(payload) ==
    payload.amount = <<>> /\ payload.unitprice = <<>>
    /\ payload.total_value = <<>>

_get_or_create_source(db, user, source_name) ==
    IF source_name = "" THEN db
    ELSE [db EXCEPT !.sources = @ \cup {<<user, source_name>>}]

\* an insert that replaces the rows of the table
InsertTxOver(db, row) == [db EXCEPT !.txs = <<row>>]
InsertTx(db, row) == [db EXCEPT !.txs = Append(@, row)]
\* a Stock insert that writes nothing
InsertStockLost(db, row) == db
InsertStock(db, row) == [db EXCEPT !.stocks = Append(@, row)]
InsertPending(db, row) == [db EXCEPT !.pendings = Append(@, row)]

\* the block left without a rollback: what was written before the exception
\* remains
NoRollback(before, partial) == partial

\* leaving `with transaction.atomic()` by an exception: nothing written
\* inside the block remains
Rollback(before, partial) == before

\* ----------------------------------------------------------- handler results
\* What one handler call did: the database it leaves, the fields it saved on
\* the message (save(update_fields=...)), its return value, or the exception
\* it let escape.
Saved(fields, err, link) ==
    [fields |-> fields, processing_error |-> err,
     gmail_confirmation_link |-> link]
NoSave == Saved({}, "", "")
StampOnly == Saved({"processed_at"}, "", "")
StampError(err) == Saved({"processing_error", "processed_at"}, err, "")

Returns(h, cand, db, save, ret) ==
    [handler |-> h, cand |-> cand, raised |-> FALSE, exc |-> NoExc,
     db |-> db, save |-> save, ret |-> ret]
\* an escaped exception that still advances the count
RaisesCounted(h, cand, db, exc) ==
    [handler |-> h, cand |-> cand, raised |-> TRUE, exc |-> exc,
     db |-> db, save |-> NoSave, ret |-> 1]
Raises(h, cand, db, exc) ==
    [handler |-> h, cand |-> cand, raised |-> TRUE, exc |-> exc,
     db |-> db, save |-> NoSave, ret |-> 0]

\* PendingTransaction.objects.create(...) followed by the stamp and return 1
ParkAsPending(h, db, i, user, parsed, reason) ==
    IF JsonSerializable(parsed)
      THEN Returns(h, TRUE,
                   InsertPending(db, [user |-> user,
                                      external_id |-> parsed.external_id,
                                      payload |-> parsed, reason |-> reason,
                                      msg |-> i]),
                   StampOnly, 1)
      ELSE Raises(h, TRUE, db, JsonTypeError)

_handle_duplicate(h, db, i, user, parsed) ==
    ParkAsPending(h, db, i, user, parsed, "duplicate")

\* msg.date.date() if msg.date else date.today(); msg.date is a datetime as
\* stored, a plain date once the Midinero handler has overwritten it
TxDateRaises(date, isPlainDate) == date # 0 /\ isPlainDate
TxDate(date) == IF date # 0 THEN date ELSE Today

\* the part of _create_transaction after the duplicate check
_create_transaction_insert(h, db, i, user, date, isPlainDate, parsed, backend) ==
    IF TxDateRaises(date, isPlainDate) THEN Raises(h, TRUE, db, AttributeError)
    ELSE
      LET row == [user |-> user, date |-> TxDate(date),
                  description |-> parsed.description,
                  amount |-> QuantizeField(parsed.amount[1], 2, backend),
                  currency |-> Upper(parsed.currency),
                  source |-> parsed.source,
                  comments |-> parsed.comments,
                  external_id |-> parsed.external_id,
                  status |-> "confirmed", msg |-> i]
          withSource == _get_or_create_source(db, user, parsed.source)
      IN  IF TxInsertRejected(withSource, row)
            THEN _handle_duplicate(h, Rollback(db, withSource), i, user, parsed)
            ELSE Returns(h, TRUE, InsertTx(withSource, row), StampOnly, 1)

\* the part of _process_ibkr_trade after the duplicate check
_process_ibkr_trade_insert(db, i, user, date, parsed, backend) ==
    LET cash == IF parsed.bought THEN parsed.total_value[1]
                ELSE DecNeg(parsed.total_value[1])
        tx == [user |-> user, date |-> TxDate(date),
               description |-> (IF parsed.bought THEN "BUY" ELSE "SELL")
                               \o " " \o DecStr(parsed.amount[1]) \o " "
                               \o parsed.symbol \o " @ $"
                               \o DecStr(parsed.unitprice[1]),
               amount |-> QuantizeField(cash, 2, backend),
               currency |-> "USD", source |-> "ibkr",
               comments |-> "", external_id |-> parsed.external_id,
               status |-> "confirmed", msg |-> i]
        withSource == _get_or_create_source(db, user, "ibkr")
        withTx == InsertTx(withSource, tx)
        stock == [user |-> user, date |-> TxDate(date),
                  symbol |-> parsed.symbol, bought |-> parsed.bought,
                  amount |-> QuantizeField(parsed.amount[1], 6, backend),
                  unitprice |-> QuantizeField(parsed.unitprice[1], 4, backend),
                  external_id |-> parsed.external_id,
                  transaction |-> Len(withTx.txs), msg |-> i]
    IN  IF TxInsertRejected(withSource, tx)
          THEN _handle_duplicate("ibkr", Rollback(db, withSource), i, user,
                                 parsed)
        ELSE IF StockInsertRejected(withTx, stock)
          THEN _handle_duplicate("ibkr", Rollback(db, withTx), i, user, parsed)
        ELSE IF StockAmountOverflows(stock.amount)
          THEN Raises("ibkr", TRUE, Rollback(db, withTx),
                      DecimalOverflow(backend))
        ELSE Returns("ibkr", TRUE, InsertStock(withTx, stock), StampOnly, 1)

\* ----------------------------------------------------------------- handlers
\* A handler runs in two parts: everything up to and including the duplicate
\* check (parse, validation, exists()), and the inserts that follow it.  The
\* first part either finishes the message or leaves a candidate to insert.
Final(res) ==
    [final |-> TRUE, res |-> res, kind |-> "", parsed |-> BlankCand,
     isPlainDate |-> FALSE]
Ready(h, kind, parsed, isPlainDate) ==
    [final |-> FALSE, res |-> Returns(h, TRUE, <<>>, NoSave, 0), kind |-> kind,
     parsed |-> parsed, isPlainDate |-> isPlainDate]

\* _create_transaction up to the duplicate check
_create_transaction_check(h, db, i, user, isPlainDate, parsed) ==
    IF parsed.external_id # "" /\ TxExists(db, user, parsed.external_id)
      THEN Final(ParkAsPending(h, db, i, user, parsed, "duplicate"))
      ELSE Ready(h, "tx", parsed, isPlainDate)

\* a handler for which a mail without a link is an error
_process_gmail_confirmation_strict(db, m, backend) ==
    IF m.raw.link = ""
      THEN Returns("gmail", FALSE, db,
                   StampError("Gmail forwarding error: no link"), 1)
      ELSE Returns("gmail", FALSE, db,
                   Saved({"processed_at", "gmail_confirmation_link"}, "",
                         m.raw.link), 1)

_process_gmail_confirmation(db, m, backend) ==
    LET confirmation_link == m.raw.link
        rejected == /\ confirmation_link # ""
                    /\ Len(confirmation_link) > LinkMax
                    /\ EnforcesLength(backend)
    IN  IF rejected
          THEN Returns("gmail", FALSE, db,
                       StampError(Trunc("Gmail forwarding error: "
                                        \o LinkTooLong.text, ErrMax)), 1)
        ELSE IF confirmation_link # ""
          THEN Returns("gmail", FALSE, db,
                       Saved({"processed_at", "gmail_confirmation_link"}, "",
                             confirmation_link), 1)
        ELSE Returns("gmail", FALSE, db, StampOnly, 1)

_process_visa_alert(db, i, m) ==
    With(parse_visa_alert(m.raw), LAMBDA p :
      LET envelope_from == ParseAddr(m.from_address)
          allowed == \/ envelope_from = VisaAddr
                     \/ VisaAddr \in m.raw.fromHdr
                     \/ VisaAddr \in m.raw.bodyAddrs
      IN
        IF p.tag = "raise" THEN Final(Raises("visa", FALSE, db, p.exc))
        ELSE IF ~allowed
          THEN Final(Returns("visa", TRUE, db,
                             StampError("skipped_non_visa_sender"), 0))
        ELSE IF Falsy(p.c.amount) \/ p.c.currency = ""
          THEN Final(Returns("visa", TRUE, db,
                             StampError("Missing amount or currency"), 0))
        ELSE _create_transaction_check("visa", db, i, m.user, FALSE, p.c))

_process_chase_alert(db, i, m) ==
    With(parse_chase_alert(m.raw), LAMBDA p :
        IF p.tag = "raise" THEN Final(Raises("chase", FALSE, db, p.exc))
        ELSE IF Falsy(p.c.amount)
          THEN Final(Returns("chase", TRUE, db, StampError("Missing amount"),
                             0))
        ELSE _create_transaction_check("chase", db, i, m.user, FALSE, p.c))

\* a handler that counts the message whose subject it could not parse
_process_ibkr_trade_counting(db, i, m) ==
    With(parse_ibkr_trade(m.raw), LAMBDA p :
        IF p.tag = "raise" THEN Final(Raises("ibkr", FALSE, db, p.exc))
        ELSE IF p.tag = "none"
          THEN Final(Returns("ibkr", FALSE, db,
                             StampError("Failed to parse IBKR trade"), 1))
        ELSE IF p.c.external_id # ""
                /\ StockExists(db, m.user, p.c.external_id)
          THEN Final(ParkAsPending("ibkr", db, i, m.user, p.c,
                                   "duplicate_stock"))
        ELSE Ready("ibkr", "trade", p.c, FALSE))

_process_ibkr_trade(db, i, m) ==
    With(parse_ibkr_trade(m.raw), LAMBDA p :
        IF p.tag = "raise" THEN Final(Raises("ibkr", FALSE, db, p.exc))
        ELSE IF p.tag = "none"
          THEN Final(Returns("ibkr", FALSE, db,
                             StampError("Failed to parse IBKR trade"), 0))
        ELSE IF p.c.external_id # ""
                /\ StockExists(db, m.user, p.c.external_id)
          THEN Final(ParkAsPending("ibkr", db, i, m.user, p.c,
                                   "duplicate_stock"))
        ELSE Ready("ibkr", "trade", p.c, FALSE))

_process_alignet_alert(db, i, m) ==
    With(parse_alignet_alert(m.raw), LAMBDA p :
        IF p.tag = "raise" THEN Final(Raises("alignet", FALSE, db, p.exc))
        ELSE IF Falsy(p.c.amount) \/ p.c.currency = ""
          THEN Final(Returns("alignet", TRUE, db,
                             StampError("Missing amount or currency"), 0))
        ELSE _create_transaction_check("alignet", db, i, m.user, FALSE, p.c))

\* a parsed date replaces msg.date (in memory only) by a plain date
_process_midinero_alert(db, i, m) ==
    With(parse_midinero_alert(m.raw, m.subject), LAMBDA p :
        IF p.tag = "raise" THEN Final(Raises("midinero", FALSE, db, p.exc))
        ELSE IF p.tag = "none"
          THEN Final(Returns("midinero", FALSE, db,
                             StampError("Not a recognized Midinero format"),
                             0))
        ELSE IF Falsy(p.c.amount) \/ p.c.currency = ""
          THEN Final(Returns("midinero", TRUE, db,
                             StampError("Missing amount or currency"), 0))
        ELSE _create_transaction_check("midinero", db, i, m.user,
                                       p.c.date # 0, p.c))

\* the final else reporting the display name instead of the address
UnrecognizedByName(db, m) ==
    Returns("unrecognized", FALSE, db,
            StampError("Unrecognized sender: " \o m.from_address.name),
            0)

Unrecognized(db, m) ==
    Returns("unrecognized", FALSE, db,
            StampError("Unrecognized sender: " \o ParseAddr(m.from_address)),
            0)

\* the try body of process_new_messages up to the duplicate check
Dispatch(db, i, m, backend) ==
    LET rule == Route(m)
    IN  IF rule = "gmail" THEN Final(_process_gmail_confirmation(db, m, backend))
        ELSE IF rule = "chase" THEN _process_chase_alert(db, i, m)
        ELSE IF rule = "ibkr" THEN _process_ibkr_trade(db, i, m)
        ELSE IF rule = "visa" THEN _process_visa_alert(db, i, m)
        ELSE IF rule = "alignet" THEN _process_alignet_alert(db, i, m)
        ELSE IF rule = "midinero" THEN _process_midinero_alert(db, i, m)
        ELSE Final(Unrecognized(db, m))

\* the inserts of a candidate that passed the duplicate check; msg.date is
\* the parsed date when the handler overwrote it
Complete(db, i, m, b, backend) ==
    IF b.kind = "trade"
      THEN _process_ibkr_trade_insert(db, i, m.user, m.date, b.parsed, backend)
      ELSE _create_transaction_insert(b.res.handler, db, i, m.user,
                                      IF b.isPlainDate THEN b.parsed.date
                                      ELSE m.date,
                                      b.isPlainDate, b.parsed, backend)

\* one message handled from start to end
HandleMessage(db, i, m, backend) ==
    With(Dispatch(db, i, m, backend), LAMBDA b :
        IF b.final THEN b.res ELSE Complete(db, i, m, b, backend))

\* error_msg = f"{type(exc).__name__}: {str(exc)}"
ErrorMsg(exc) == exc.kind \o ": " \o exc.text

\* an except clause that records the error but does not stamp the message
SaveMsgNoStamp(row, r, t) ==
    IF r.raised
      THEN [row EXCEPT !.processing_error = Trunc(ErrorMsg(r.exc), ErrMax)]
      ELSE [row EXCEPT
              !.processed_at =
                  IF "processed_at" \in r.save.fields THEN t ELSE @,
              !.processing_error =
                  IF "processing_error" \in r.save.fields
                    THEN r.save.processing_error ELSE @,
              !.gmail_confirmation_link =
                  IF "gmail_confirmation_link" \in r.save.fields
                    THEN r.save.gmail_confirmation_link ELSE @]

\* the message row after the handler's save, or after the save of the
\* except clause of process_new_messages when the handler raised
SaveMsg(row, r, t) ==
    IF r.raised
      THEN [row EXCEPT !.processing_error = Trunc(ErrorMsg(r.exc), ErrMax),
                       !.processed_at = t]
      ELSE [row EXCEPT
              !.processed_at =
                  IF "processed_at" \in r.save.fields THEN t ELSE @,
              !.processing_error =
                  IF "processing_error" \in r.save.fields
                    THEN r.save.processing_error ELSE @,
              !.gmail_confirmation_link =
                  IF "gmail_confirmation_link" \in r.save.fields
                    THEN r.save.gmail_confirmation_link ELSE @]

\* ------------------------------------------------------------------- state
VARIABLES
    msgs,      \* UserEmailMessage rows, in download order
    txs,       \* Transaction rows
    stocks,    \* Stock rows
    pendings,  \* PendingTransaction rows
    sources,   \* Source rows, as <<user, name>>
    now,       \* timezone.now(), a logical clock
    pc,        \* per worker: "idle" or "running" (inside process_new_messages)
    qs,        \* per worker: the rows the iterator has still to yield
    sel,       \* per worker: the rows the query of the current run selected
    count,     \* per worker: the local count
    ret,       \* per worker: the value the last run returned (-1: none yet)
    cur,       \* per worker: the candidate between its check and its inserts
    log,       \* per message: what each handling of it did (history)
    race       \* pairs of handlings whose checks both preceded both inserts

vars == <<msgs, txs, stocks, pendings, sources, now, pc, qs, sel, count,
          ret, cur, log, race>>

DB == [txs |-> txs, stocks |-> stocks, pendings |-> pendings,
       sources |-> sources]

Idle == [phase |-> "idle", i |-> 0, b |-> Final(Returns("", FALSE, <<>>, NoSave, 0))]

Init ==
    /\ msgs = <<>>
    /\ txs = <<>>
    /\ stocks = <<>>
    /\ pendings = <<>>
    /\ sources = {}
    /\ now = 0
    /\ pc = [w \in Workers |-> "idle"]
    /\ qs = [w \in Workers |-> <<>>]
    /\ sel = [w \in Workers |-> {}]
    /\ count = [w \in Workers |-> 0]
    /\ ret = [w \in Workers |-> -1]
    /\ cur = [w \in Workers |-> Idle]
    /\ log = <<>>
    /\ race = {}

\* the fetcher stores one more RawMessage (fetch_emails_task fetches before
\* it calls process_new_messages)
Store(m) ==
    /\ Len(msgs) < MaxMsgs
    /\ \A w \in Workers : pc[w] = "idle"
    /\ msgs' = Append(msgs, m)
    /\ log' = Append(log, <<>>)
    /\ UNCHANGED <<txs, stocks, pendings, sources, now, pc, qs, sel,
                   count, ret, cur, race>>

Deliver == \E m \in Inbox : Store(m)

\* a query without the processed_at filter
AllMessages == {i \in 1..Len(msgs) : TRUE}

\* UserEmailMessage.objects.filter(processed_at__isnull=True)
Unprocessed == {i \in 1..Len(msgs) : msgs[i].processed_at = 0}

\* Meta.ordering = ["-downloaded_at"]: the newest row first
RECURSIVE NewestFirst(_)
NewestFirst(S) ==
    IF S = {} THEN <<>>
    ELSE LET top == CHOOSE i \in S : \A j \in S : j <= i
         IN  <<top>> \o NewestFirst(S \ {top})

\* process_new_messages is entered: the query is evaluated, count = 0
StartRun(w) ==
    /\ pc[w] = "idle"
    /\ pc' = [pc EXCEPT ![w] = "running"]
    /\ qs' = [qs EXCEPT ![w] = NewestFirst(Unprocessed)]
    /\ sel' = [sel EXCEPT ![w] = Unprocessed]
    /\ count' = [count EXCEPT ![w] = 0]
    /\ UNCHANGED <<msgs, txs, stocks, pendings, sources, now, ret,
                   cur, log, race>>

\* the effect of one finished handling r of message i by worker w
Finish(w, i, r) ==
    /\ now' = now + 1
    /\ msgs' = [msgs EXCEPT ![i] = SaveMsg(@, r, now + 1)]
    /\ txs' = r.db.txs
    /\ stocks' = r.db.stocks
    /\ pendings' = r.db.pendings
    /\ sources' = r.db.sources
    /\ count' = [count EXCEPT ![w] = @ + r.ret]
    /\ qs' = [qs EXCEPT ![w] = Tail(@)]
    /\ log' = [log EXCEPT ![i] =
                 Append(@, [w |-> w, handler |-> r.handler, cand |-> r.cand,
                            raised |-> r.raised, exc |-> r.exc, ret |-> r.ret,
                            at |-> now + 1,
                            dtx |-> Len(r.db.txs) - Len(txs),
                            dstock |-> Len(r.db.stocks) - Len(stocks),
                            dpending |-> Len(r.db.pendings) - Len(pendings)])]

\* one iteration of the loop of process_new_messages, run to its end
HandleNext(w) ==
    /\ pc[w] = "running"
    /\ qs[w] # <<>>
    /\ \E backend \in Backends :
          \E r \in {HandleMessage(DB, Head(qs[w]), msgs[Head(qs[w])], backend)} :
              Finish(w, Head(qs[w]), r)
    /\ UNCHANGED <<pc, sel, ret, cur, race>>

\* the loop is over: return count
Return(w) ==
    /\ pc[w] = "running"
    /\ qs[w] = <<>>
    /\ cur[w].phase = "idle"
    /\ ret' = [ret EXCEPT ![w] = count[w]]
    /\ pc' = [pc EXCEPT ![w] = "idle"]
    /\ UNCHANGED <<msgs, txs, stocks, pendings, sources, now, qs, sel,
                   count, cur, log, race>>

\* one invocation at a time (fetch_emails_task run sequentially)
Next ==
    \/ Deliver
    \/ StartRun(1)
    \/ HandleNext(1)
    \/ Return(1)

Spec == Init /\ [][Next]_vars

\* One message per way a handling can end: created, trade, parser raised,
\* validation error, unrecognized, link saved or rejected, card alert, and
\* a handler that raises after parsing.
FairInbox ==
    { Msg("u1", ChaseAddr, ChaseSubject, 5, ChaseRaw),
      Msg("u1", IbkrAddr, {}, 5, IbkrRaw),
      Msg("u1", VisaAddr, VisaSubject, 5, [VisaRaw EXCEPT !.malformed = 600]),
      Msg("u1", VisaAddr, VisaSubject, 5, VisaText("USD", "")),
      Msg("u1", OtherAddr, {}, 5, BlankRaw),
      Msg("u1", GmailAddr, GmailSubject, 5, [BlankRaw EXCEPT !.link = LongLink]),
      Msg("u1", OtherAddr, AlignetSubject, 5, AlignetRaw),
      Msg("u1", MidineroAddr, RecargaSubject, 5,
          [MidineroRaw EXCEPT !.fecha = 4, !.mid = "<m2>"]) }

FairDeliver == \E m \in FairInbox : Store(m)

FairNext ==
    \/ FairDeliver
    \/ StartRun(1)
    \/ HandleNext(1)
    \/ Return(1)

\* the loop of process_new_messages always goes on to its next iteration and
\* the function returns when the iterator is exhausted
FairSpec ==
    Init /\ [][FairNext]_vars /\ WF_vars(HandleNext(1)) /\ WF_vars(Return(1))

\* the fetcher stores one message written as text
ParseDeliver ==
    \E m \in ParseInbox :
        /\ Len(msgs) < ParseMsgs
        /\ \A w \in Workers : pc[w] = "idle"
        /\ msgs' = Append(msgs, m)
        /\ log' = Append(log, <<>>)
        /\ UNCHANGED <<txs, stocks, pendings, sources, now, pc, qs, sel,
                       count, ret, cur, race>>

ParseNext ==
    \/ ParseDeliver
    \/ StartRun(1)
    \/ HandleNext(1)
    \/ Return(1)

\* the parsers applied to written amounts, subjects and bodies
ParseSpec == Init /\ [][ParseNext]_vars

\* ------------------------------------------------- overlapping invocations
\* Two fetch_emails_task executions overlap: each worker runs its own
\* process_new_messages, and the duplicate check of a handler and the inserts
\* that follow it are separate database statements.
ConcInbox ==
    { Msg("u1", VisaAddr, VisaSubject, 5, VisaRaw),
      Msg("u1", IbkrAddr, {}, 5, IbkrRaw),
      Msg("u1", VisaAddr, VisaSubject, 5, VisaText("USD", "")) }

ConcDeliver ==
    \E m \in ConcInbox :
        /\ Len(msgs) < MaxMsgs
        /\ msgs' = Append(msgs, m)
        /\ log' = Append(log, <<>>)
        /\ UNCHANGED <<txs, stocks, pendings, sources, now, pc, qs,
                       sel, count, ret, cur, race>>

\* the handlings that are between their check and their inserts for the
\* same owner and external id as the candidate c of worker w
Racing(w, user, c) ==
    { [user |-> user, external_id |-> c.external_id,
       a |-> [w |-> v, i |-> cur[v].i], b |-> [w |-> w, i |-> Head(qs[w])]] :
        v \in { x \in Workers \ {w} :
                  /\ cur[x].phase = "ready"
                  /\ msgs[cur[x].i].user = user
                  /\ cur[x].b.parsed.external_id = c.external_id } }

\* the loop body up to and including the duplicate check
Check(w) ==
    /\ pc[w] = "running"
    /\ qs[w] # <<>>
    /\ cur[w].phase = "idle"
    /\ \E backend \in Backends, i \in {Head(qs[w])} :
         \E b \in {Dispatch(DB, i, msgs[i], backend)} :
           IF b.final
             THEN /\ Finish(w, i, b.res)
                  /\ UNCHANGED <<cur, race>>
             ELSE /\ cur' = [cur EXCEPT ![w] =
                               [phase |-> "ready", i |-> i, b |-> b]]
                  /\ race' = race \cup Racing(w, msgs[i].user, b.parsed)
                  /\ UNCHANGED <<msgs, txs, stocks, pendings, sources, now,
                                 count, qs, log>>
    /\ UNCHANGED <<pc, sel, ret>>

\* the inserts of the candidate that passed the check, and the stamp
Insert(w) ==
    /\ cur[w].phase = "ready"
    /\ \E backend \in Backends, i \in {cur[w].i} :
          \E r \in {Complete(DB, i, msgs[i], cur[w].b, backend)} :
              Finish(w, i, r)
    /\ cur' = [cur EXCEPT ![w] = Idle]
    /\ UNCHANGED <<pc, sel, ret, race>>

ConcNext ==
    \/ ConcDeliver
    \/ \E w \in Workers : StartRun(w)
    \/ \E w \in Workers : Check(w)
    \/ \E w \in Workers : Insert(w)
    \/ \E w \in Workers : Return(w)

ConcSpec == Init /\ [][ConcNext]_vars

\* ================================================================== claims
EmptyDB == [txs |-> <<>>, stocks |-> <<>>, pendings |-> <<>>, sources |-> {}]
MsgIds == 1..Len(msgs)
Processed(i) == msgs[i].processed_at # 0
Handlings == {<<i, n>> : i \in MsgIds, n \in 1..MaxMsgs + 2}
Handled == {h \in Handlings : h[2] <= Len(log[h[1]])}
Entry(h) == log[h[1]][h[2]]

\* what the handler of m does up to its duplicate check on an empty database
CandidateOf(m) == Dispatch(EmptyDB, 0, m, "sqlite")
\* m yields a candidate that reaches _create_transaction
YieldsTxCandidate(m) == ~CandidateOf(m).final /\ CandidateOf(m).kind = "tx"

TxRowsOf(user, external_id) ==
    {k \in 1..Len(txs) : /\ txs[k].user = user
                         /\ txs[k].external_id = external_id
                         /\ txs[k].status # "pending_duplicate"}
StockRowsOf(user, external_id) ==
    {k \in 1..Len(stocks) : /\ stocks[k].user = user
                            /\ stocks[k].external_id = external_id}
RowsFrom(rows, i) == {k \in 1..Len(rows) : rows[k].msg = i}

\* C1: for every owner and every non-empty external id there is at most one
\* non-pending Transaction and at most one Stock with that external id, also
\* when a trade message and a non-trade message carry the same external id.
C1_OnePerExternalId ==
    \A u \in Users :
        /\ \A k \in 1..Len(txs) :
               txs[k].user = u /\ txs[k].external_id # ""
               => Cardinality(TxRowsOf(u, txs[k].external_id)) <= 1
        /\ \A k \in 1..Len(stocks) :
               stocks[k].user = u /\ stocks[k].external_id # ""
               => Cardinality(StockRowsOf(u, stocks[k].external_id)) <= 1

\* C2: a message whose processed_at is set is never handled again: its row
\* does not change and no row is created from it; a run that selected nothing
\* changes no table and returns 0.
C2_ProcessedOnce ==
    /\ [][ /\ \A i \in MsgIds :
                Processed(i)
                => /\ msgs'[i] = msgs[i]
                   /\ log'[i] = log[i]
                   /\ RowsFrom(txs', i) = RowsFrom(txs, i)
                   /\ RowsFrom(stocks', i) = RowsFrom(stocks, i)
                   /\ RowsFrom(pendings', i) = RowsFrom(pendings, i)
           /\ \A w \in Workers :
                pc[w] = "running" /\ sel[w] = {}
                => /\ UNCHANGED <<msgs, txs, stocks, pendings>>
                   /\ pc'[w] = "idle" => ret'[w] = 0 ]_vars
    /\ [](\A i \in MsgIds : Len(log[i]) <= 1)

\* a run over nothing but processed messages, one of them errored, returned 0
C2_Witness ==
    /\ pc[1] = "idle" /\ ret[1] = 0 /\ sel[1] = {}
    /\ Len(msgs) = MaxMsgs
    /\ \A i \in MsgIds : Processed(i)
    /\ \E i \in MsgIds : msgs[i].processing_error # ""
    /\ \E i \in MsgIds : RowsFrom(txs, i) # {}

\* C3: a run terminates, and when it has returned every message its query
\* selected has processed_at set, whatever the outcome of each message.
C3_RunStampsAll ==
    /\ [](\A w \in Workers :
            pc[w] = "idle" => \A i \in sel[w] : Processed(i))
    /\ \A w \in {1} : (pc[w] = "running") ~> (pc[w] = "idle")

\* a returned run whose messages ended differently: one raised, one created
C3_Witness ==
    /\ pc[1] = "idle"
    /\ Cardinality(sel[1]) = 2
    /\ \E i \in sel[1] : log[i] # <<>> /\ log[i][1].raised
    /\ \E i \in sel[1] : log[i] # <<>> /\ log[i][1].dtx = 1

\* C4: two non-trade messages of one owner whose candidates have the same
\* non-empty external id, handled one after the other: one Transaction, one
\* PendingTransaction "duplicate" with the second candidate, the second
\* message stamped without error, both counted.
C4_SecondIsParked ==
    \A i, j \in MsgIds :
        ( /\ i # j
          /\ msgs[i].user = msgs[j].user
          /\ YieldsTxCandidate(msgs[i]) /\ YieldsTxCandidate(msgs[j])
          /\ CandidateOf(msgs[i]).parsed.external_id # ""
          /\ CandidateOf(msgs[i]).parsed.external_id
               = CandidateOf(msgs[j]).parsed.external_id
          /\ log[i] # <<>> /\ log[j] # <<>>
          /\ log[i][1].at < log[j][1].at )
        => LET u == msgs[j].user
               c == CandidateOf(msgs[j]).parsed
           IN  /\ Cardinality(TxRowsOf(u, c.external_id)) = 1
               /\ Cardinality({k \in 1..Len(pendings) :
                                  /\ pendings[k].user = u
                                  /\ pendings[k].external_id = c.external_id
                                  /\ pendings[k].reason = "duplicate"
                                  /\ pendings[k].payload = c}) = 1
               /\ Processed(j) /\ msgs[j].processing_error = ""
               /\ log[i][1].ret = 1 /\ log[j][1].ret = 1

\* worker w has finished handling message i
HandledBy(w, i) == \E n \in 1..Len(log[i]) : log[i][n].w = w

\* C5: when two materializations for one owner and one non-empty external id
\* both pass the existence check before either inserts, the second insert is
\* rejected and parked: afterwards exactly one Transaction has that external
\* id, a PendingTransaction holds the other candidate, and neither message
\* carries a processing error.
C5_RaceIsParked ==
    \A r \in race :
        ( /\ r.external_id # ""
          /\ HandledBy(r.a.w, r.a.i) /\ HandledBy(r.b.w, r.b.i) )
        => /\ Cardinality(TxRowsOf(r.user, r.external_id)) = 1
           /\ \E k \in 1..Len(pendings) :
                  /\ pendings[k].user = r.user
                  /\ pendings[k].external_id = r.external_id
           /\ msgs[r.a.i].processing_error = ""
           /\ msgs[r.b.i].processing_error = ""

\* C6: the Transaction of a brokerage trade exists exactly when the Stock of
\* the same message exists, linked to it, with the same external id and date.
C6_TradePaired ==
    /\ \A k \in 1..Len(txs) :
          Route(msgs[txs[k].msg]) = "ibkr"
          => \E n \in 1..Len(stocks) :
                /\ stocks[n].transaction = k
                /\ stocks[n].msg = txs[k].msg
                /\ stocks[n].user = txs[k].user
                /\ stocks[n].external_id = txs[k].external_id
                /\ stocks[n].date = txs[k].date
    /\ \A n \in 1..Len(stocks) :
          /\ stocks[n].transaction \in 1..Len(txs)
          /\ txs[stocks[n].transaction].msg = stocks[n].msg
          /\ Route(msgs[stocks[n].msg]) = "ibkr"

\* one trade was stored as a pair, another failed after its Transaction insert
C6_Witness ==
    /\ \E n \in 1..Len(stocks) : stocks[n].transaction \in 1..Len(txs)
    /\ \E h \in Handled :
          /\ Entry(h).handler = "ibkr" /\ Entry(h).raised
          /\ Entry(h).exc.kind \in {"InvalidOperation", "DataError"}

\* the messages a returned value of worker w counted
Counted(w) == {i \in sel[w] : log[i] # <<>> /\ log[i][Len(log[i])].ret = 1}

\* C7: when handling a message raises, the message gets processing_error
\* "<kind>: <text>" cut to 500 characters and is stamped, it is not counted,
\* and the rest of the run is still handled.
C7_ExceptionContained ==
    /\ \A h \in Handled :
          Entry(h).raised
          => /\ msgs[h[1]].processing_error
                  = Trunc(Entry(h).exc.kind \o ": " \o Entry(h).exc.text, 500)
             /\ Len(msgs[h[1]].processing_error) <= 500
             /\ msgs[h[1]].processed_at = Entry(h).at
             /\ Entry(h).ret = 0
    /\ \A w \in Workers :
          pc[w] = "idle" /\ ret[w] # -1
          => /\ \A i \in sel[w] : Processed(i) /\ log[i] # <<>>
             /\ ret[w] = Cardinality(Counted(w))
             /\ \A i \in Counted(w) : ~log[i][Len(log[i])].raised

\* a returned run whose first message raised with a text longer than 500
\* characters and whose later message was handled and counted
C7_Witness ==
    /\ pc[1] = "idle" /\ ret[1] = 1
    /\ \E i, j \in sel[1] :
          /\ log[i][1].raised /\ Len(ErrorMsg(log[i][1].exc)) > 500
          /\ Len(msgs[i].processing_error) = 500
          /\ log[j][1].at > log[i][1].at /\ log[j][1].ret = 1

\* C8: handling a message whose parser produced a candidate does exactly one
\* of: add one Transaction (and one Stock for a trade), add one
\* PendingTransaction, add nothing and leave a processing_error; the message
\* is stamped in all three.
AddsTransaction(h) ==
    /\ Entry(h).dtx = 1 /\ Entry(h).dpending = 0
    /\ Entry(h).dstock = IF Entry(h).handler = "ibkr" THEN 1 ELSE 0
AddsPending(h) ==
    Entry(h).dpending = 1 /\ Entry(h).dtx = 0 /\ Entry(h).dstock = 0
AddsNothingWithError(h) ==
    /\ Entry(h).dtx = 0 /\ Entry(h).dstock = 0 /\ Entry(h).dpending = 0
    /\ msgs[h[1]].processing_error # ""

C8_ExactlyOneEffect ==
    \A h \in Handled :
        Entry(h).cand
        => /\ Processed(h[1])
           /\ \/ AddsTransaction(h) /\ ~AddsPending(h)
                 /\ ~AddsNothingWithError(h)
                 /\ msgs[h[1]].processing_error = ""
              \/ AddsPending(h) /\ ~AddsTransaction(h)
                 /\ ~AddsNothingWithError(h)
                 /\ msgs[h[1]].processing_error = ""
              \/ AddsNothingWithError(h) /\ ~AddsTransaction(h)
                 /\ ~AddsPending(h)

\* a trade stored as a pair and a candidate that left only an error
C8_Witness ==
    /\ \E h \in Handled :
          Entry(h).cand /\ Entry(h).handler = "ibkr" /\ AddsTransaction(h)
    /\ \E h \in Handled : Entry(h).cand /\ AddsNothingWithError(h)

\* C9: one handler per message, the one of the first matching rule in the
\* order gmail, chase, ibkr, visa, alignet, midinero, else unrecognized; later
\* rules are not tried even when that handler rejects the message.
Rules == <<"gmail", "chase", "ibkr", "visa", "alignet", "midinero">>
Matches(rule, m) ==
    LET from == m.from_address.addr
    IN  CASE rule = "gmail" ->
               /\ from = GmailAddr
               /\ m.subject \cap {"confirmacio'n", "confirmation"} # {}
               /\ m.subject \cap {"reenvi'o", "forwarding"} # {}
          [] rule = "chase" ->
               /\ from = ChaseAddr
               /\ m.subject \cap {"direct deposit", "bill payment"} # {}
          [] rule = "ibkr" -> from = IbkrAddr
          [] rule = "visa" -> from = VisaAddr \/ "visa" \in m.subject
          [] rule = "alignet" ->
               m.subject \cap {"alignet", "co'digo de seguridad"} # {}
          [] rule = "midinero" ->
               \/ from \in {MidineroAddr, OtherMidineroAddr}
               \/ m.raw.hasMidineroDomain
FirstMatch(m) ==
    IF \E k \in 1..Len(Rules) : Matches(Rules[k], m)
      THEN Rules[CHOOSE k \in 1..Len(Rules) :
                   /\ Matches(Rules[k], m)
                   /\ \A l \in 1..(k - 1) : ~Matches(Rules[l], m)]
      ELSE "unrecognized"

C9_FirstMatchOnly ==
    \A i \in MsgIds :
        /\ Len(log[i]) <= 1
        /\ Processed(i) => Len(log[i]) = 1
        /\ \A n \in 1..Len(log[i]) : log[i][n].handler = FirstMatch(msgs[i])

\* a forwarding confirmation with the card word in its subject went to the
\* forwarding handler; a subject matching the card and the security-code
\* rule went to the card handler, which rejected it, and nowhere else
C9_Witness ==
    /\ \E i \in MsgIds :
          /\ Matches("gmail", msgs[i]) /\ Matches("visa", msgs[i])
          /\ log[i] # <<>> /\ log[i][1].handler = "gmail"
    /\ \E i \in MsgIds :
          /\ Matches("visa", msgs[i]) /\ Matches("alignet", msgs[i])
          /\ log[i] # <<>> /\ log[i][1].handler = "visa"
          /\ msgs[i].processing_error = "skipped_non_visa_sender"
          /\ RowsFrom(txs, i) = {}

\* C10: a message no rule matches is stamped with processing_error
\* "Unrecognized sender: <envelope address>", creates no row and is not
\* counted.
C10_Unrecognized ==
    \A i \in MsgIds :
        (Processed(i) /\ \A k \in 1..Len(Rules) : ~Matches(Rules[k], msgs[i]))
        => /\ msgs[i].processing_error
                = "Unrecognized sender: " \o msgs[i].from_address.addr
           /\ RowsFrom(txs, i) = {} /\ RowsFrom(stocks, i) = {}
           /\ RowsFrom(pendings, i) = {}
           /\ \A n \in 1..Len(log[i]) :
                 /\ log[i][n].ret = 0
                 /\ log[i][n].dtx = 0 /\ log[i][n].dstock = 0
                 /\ log[i][n].dpending = 0
           /\ \A w \in Workers : pc[w] = "idle" => i \notin Counted(w)

\* an unrecognized message was handled in a run that counted another one
C10_Witness ==
    /\ pc[1] = "idle" /\ ret[1] = 1 /\ Cardinality(sel[1]) = 2
    /\ \E i \in sel[1] :
          /\ \A k \in 1..Len(Rules) : ~Matches(Rules[k], msgs[i])
          /\ Processed(i)

\* the envelope sender, the parsed From addresses and the body of m all lack
\* the card-network address
NotFromVisa(m) ==
    /\ ParseAddr(m.from_address) # VisaAddr
    /\ VisaAddr \notin m.raw.fromHdr
    /\ VisaAddr \notin m.raw.bodyAddrs
\* message i left no row and was never counted
NoEffect(i) ==
    /\ RowsFrom(txs, i) = {} /\ RowsFrom(stocks, i) = {}
    /\ RowsFrom(pendings, i) = {}
    /\ \A n \in 1..Len(log[i]) :
          /\ log[i][n].ret = 0
          /\ log[i][n].dtx = 0 /\ log[i][n].dstock = 0
          /\ log[i][n].dpending = 0

\* C11: the security code a point-of-sale alert shows in its body is in no
\* persisted field: not in the description, source, comments or external id
\* of a Transaction made from the alert, not in the payload of a
\* PendingTransaction made from it, not in its processing_error.
C11_CodeNeverPersisted ==
    \A i \in MsgIds :
        msgs[i].raw.clave # ""
        => LET code == msgs[i].raw.clave
           IN  /\ ~Contains(msgs[i].processing_error, code)
               /\ \A k \in RowsFrom(txs, i) :
                     /\ ~Contains(txs[k].description, code)
                     /\ ~Contains(txs[k].source, code)
                     /\ ~Contains(txs[k].comments, code)
                     /\ ~Contains(txs[k].external_id, code)
               /\ \A k \in RowsFrom(pendings, i) :
                     /\ ~Contains(pendings[k].payload.description, code)
                     /\ ~Contains(pendings[k].payload.source, code)
                     /\ ~Contains(pendings[k].payload.external_id, code)

\* C12: a brokerage trade whose non-empty external id the owner already has
\* a Stock for creates no Transaction and no Stock, creates one
\* PendingTransaction "duplicate_stock" carrying the candidate, is stamped
\* without a processing error and is counted.
C12_DuplicateTradeParked ==
    \A i, j \in MsgIds :
        LET p == parse_ibkr_trade(msgs[j].raw)
        IN  ( /\ i # j
              /\ Route(msgs[j]) = "ibkr" /\ p.tag = "ok"
              /\ p.c.external_id # ""
              /\ \E k \in RowsFrom(stocks, i) :
                    /\ stocks[k].user = msgs[j].user
                    /\ stocks[k].external_id = p.c.external_id
              /\ log[i] # <<>> /\ log[j] # <<>>
              /\ log[i][1].at < log[j][1].at )
            => /\ RowsFrom(txs, j) = {} /\ RowsFrom(stocks, j) = {}
               /\ Cardinality({k \in RowsFrom(pendings, j) :
                                  /\ pendings[k].reason = "duplicate_stock"
                                  /\ pendings[k].external_id = p.c.external_id
                                  /\ pendings[k].payload = p.c}) = 1
               /\ Processed(j) /\ msgs[j].processing_error = ""
               /\ log[j][1].ret = 1

\* C13: the processing_error of every message is at most 500 characters
\* long, whichever path wrote it.
C13_ErrorBounded ==
    \A i \in MsgIds : Len(msgs[i].processing_error) <= ErrMax

\* C14: a message the card-network handler receives (and mailparser can
\* read) whose envelope sender, parsed From addresses and body all lack the
\* card-network address is stamped with "skipped_non_visa_sender", creates
\* no row and is not counted, whether or not its body has an amount and a
\* currency.
C14_SenderMismatch ==
    \A i \in MsgIds :
        ( /\ Route(msgs[i]) = "visa" /\ msgs[i].raw.malformed = 0
          /\ NotFromVisa(msgs[i])
          /\ log[i] # <<>> )
        => /\ Processed(i)
           /\ msgs[i].processing_error = "skipped_non_visa_sender"
           /\ NoEffect(i)

\* C15: a card-network alert from the allowed sender whose body has no
\* amount field or no currency field is stamped with processing_error
\* "Missing amount or currency", creates no row and is not counted.
C15_MissingField ==
    \A i \in MsgIds :
        ( /\ Route(msgs[i]) = "visa" /\ msgs[i].raw.malformed = 0
          /\ ~NotFromVisa(msgs[i])
          /\ (msgs[i].raw.text = "" \/ msgs[i].raw.moneda = "")
          /\ log[i] # <<>> )
        => /\ Processed(i)
           /\ msgs[i].processing_error = "Missing amount or currency"
           /\ NoEffect(i)

\* worker 1 has returned from a run that selected message i
RunOver(i) == pc[1] = "idle" /\ i \in sel[1] /\ Processed(i)

\* C16: a brokerage message (that mailparser can read) whose subject does
\* not match ACTION QUANTITY SYMBOL @ PRICE is stamped with processing_error
\* "Failed to parse IBKR trade", creates no Transaction, Stock or
\* PendingTransaction and is not counted.
C16_NoSubjectMatch ==
    \A i \in MsgIds :
        ( /\ log[i] # <<>>
          /\ Route(msgs[i]) = "ibkr" /\ msgs[i].raw.malformed = 0
          /\ \/ msgs[i].raw.trade = <<>>
             \/ msgs[i].raw.subject \in {"BOUGHT 1,000 AAPL @ 150.50",
                                         "BOUGHT 10 AAPL @150.50",
                                         "Your order was filled", ""} )
        => /\ Processed(i)
           /\ msgs[i].processing_error = "Failed to parse IBKR trade"
           /\ NoEffect(i)

\* a subject with a thousands comma was handled and the run returned 0
C16_Witness ==
    \E i \in MsgIds :
        /\ msgs[i].raw.subject = "BOUGHT 1,000 AAPL @ 150.50"
        /\ Route(msgs[i]) = "ibkr"
        /\ RunOver(i) /\ ret[1] = 0
        /\ msgs[i].processing_error = "Failed to parse IBKR trade"

\* C17 as stated: a forwarding confirmation without a link is stamped with
\* no processing_error and no link; a link that is found is stored on the
\* message; neither case creates a row.
C17_LinkStored ==
    \A i \in MsgIds :
        (Route(msgs[i]) = "gmail" /\ log[i] # <<>>)
        => /\ Processed(i)
           /\ RowsFrom(txs, i) = {} /\ RowsFrom(stocks, i) = {}
           /\ RowsFrom(pendings, i) = {}
           /\ msgs[i].raw.link = ""
                => /\ msgs[i].processing_error = ""
                   /\ msgs[i].gmail_confirmation_link = ""
           /\ msgs[i].raw.link # ""
                => msgs[i].gmail_confirmation_link = msgs[i].raw.link

\* C17: a forwarding confirmation without a link is stamped with no
\* processing_error and no link; a link that is found and has at most 1000
\* characters is stored on the message; neither case creates a row.
C17_LinkStoredIfFits ==
    \A i \in MsgIds :
        (Route(msgs[i]) = "gmail" /\ log[i] # <<>>)
        => /\ Processed(i)
           /\ RowsFrom(txs, i) = {} /\ RowsFrom(stocks, i) = {}
           /\ RowsFrom(pendings, i) = {}
           /\ msgs[i].raw.link = ""
                => /\ msgs[i].processing_error = ""
                   /\ msgs[i].gmail_confirmation_link = ""
           /\ (msgs[i].raw.link # "" /\ Len(msgs[i].raw.link) <= LinkMax)
                => /\ msgs[i].gmail_confirmation_link = msgs[i].raw.link
                   /\ msgs[i].processing_error = ""

\* a confirmation without a link was handled and counted
C17_Witness ==
    \E i \in MsgIds :
        /\ Route(msgs[i]) = "gmail" /\ msgs[i].raw.link = ""
        /\ RunOver(i) /\ ret[1] = 1
        /\ msgs[i].processing_error = ""

\* the amounts the Monto texts write: the leading number, and after it the
\* approximate USD value when the text has the annotation
MontoWritten(t) ==
    IF t \in {"4.99 (aproximadamente 6.05 USD)",
              "4,99 (Aproximadamente 6,05 usd)"} THEN <<D(499, 2), D(605, 2)>>
    ELSE IF t = "4.99" THEN <<D(499, 2)>>
    ELSE IF t = "12,5" THEN <<D(125, 1)>>
    ELSE <<>>

\* C18: the Transaction of a card-network alert whose currency is neither
\* USD nor UYU and whose amount field has an approximate-USD annotation has
\* the approximate value as amount, currency USD and the comment
\* "Original: <original amount> <original currency>"; with currency USD or
\* UYU, or without annotation, it has the leading number, the alert's
\* currency and no comment.
C18_ApproxRule ==
    \A k \in 1..Len(txs) :
        LET m == msgs[txs[k].msg]
            w == MontoWritten(m.raw.text)
            moneda == Upper(m.raw.moneda)
        IN  Route(m) = "visa"
            => /\ w # <<>>
               /\ IF Len(w) = 2 /\ moneda \notin {"USD", "UYU"}
                    THEN /\ txs[k].amount = w[2]
                         /\ txs[k].currency = "USD"
                         /\ txs[k].comments
                              = "Original: " \o DecStr(w[1]) \o " " \o moneda
                    ELSE /\ txs[k].amount = w[1]
                         /\ txs[k].currency = moneda
                         /\ txs[k].comments = ""
               /\ (m.raw.text = "4.99 (aproximadamente 6.05 USD)"
                   /\ m.raw.moneda = "EUR")
                    => /\ DecStr(txs[k].amount) = "6.05"
                       /\ txs[k].comments = "Original: 4.99 EUR"

\* the alert of the example was stored
C18_Witness ==
    \E k \in 1..Len(txs) :
        /\ Route(msgs[txs[k].msg]) = "visa"
        /\ msgs[txs[k].msg].raw.text = "4.99 (aproximadamente 6.05 USD)"
        /\ msgs[txs[k].msg].raw.moneda = "EUR"
        /\ txs[k].amount = D(605, 2) /\ txs[k].currency = "USD"
        /\ txs[k].comments = "Original: 4.99 EUR"

\* a and b are the same number
SameValue(a, b) ==
    LET e == IF a.e > b.e THEN a.e ELSE b.e
    IN  /\ a.n * Pow10(e - a.e) = b.n * Pow10(e - b.e)
        /\ (a.n = 0 \/ a.neg = b.neg)

\* stored is exact, rounded to the nearest number with that many decimals
RoundedTo(stored, exact, places) ==
    IF exact.e <= places THEN SameValue(stored, exact)
    ELSE LET p == Pow10(exact.e - places)
             sn == stored.n * Pow10(places - stored.e) * p
             diff == IF sn > exact.n THEN sn - exact.n ELSE exact.n - sn
         IN  /\ stored.e <= places
             /\ (stored.n = 0 \/ stored.neg = exact.neg)
             /\ 2 * diff <= p

\* the quantity and the price the subjects write
TradeWritten(t) ==
    IF t = "BOUGHT 10 AAPL @ 150.50" THEN <<TRUE, D(10, 0), "AAPL", D(15050, 2)>>
    ELSE IF t = "SOLD 5.5 MSFT @ 300.25"
      THEN <<FALSE, D(55, 1), "MSFT", D(30025, 2)>>
    ELSE IF t = "Fwd: sold 5 msft @ 300.25 USD"
      THEN <<FALSE, D(5, 0), "MSFT", D(30025, 2)>>
    ELSE IF t = "BOUGHT 0.5 VT @ 0.25" THEN <<TRUE, D(5, 1), "VT", D(25, 2)>>
    ELSE IF t = "SOLD 3 BRK B @ 410.12345"
      THEN <<FALSE, D(3, 0), "BRK B", D(41012345, 5)>>
    ELSE <<>>

\* C19 as stated: the Transaction of a trade has currency USD and amount
\* +QUANTITY*PRICE when bought, -QUANTITY*PRICE when sold; its Stock has the
\* symbol, the quantity, the unit price and the direction of the subject.
C19_TradeAmounts ==
    \A k \in 1..Len(txs) :
        LET m == msgs[txs[k].msg]
            w == TradeWritten(m.raw.subject)
            value == DecMul(w[2], w[4])
        IN  Route(m) = "ibkr"
            => /\ w # <<>>
               /\ txs[k].currency = "USD"
               /\ SameValue(txs[k].amount,
                            IF w[1] THEN value ELSE Dec(TRUE, value.n, value.e))
               /\ \E n \in RowsFrom(stocks, txs[k].msg) :
                     /\ stocks[n].transaction = k
                     /\ stocks[n].symbol = w[3]
                     /\ stocks[n].bought = w[1]
                     /\ SameValue(stocks[n].amount, w[2])
                     /\ SameValue(stocks[n].unitprice, w[4])

\* C19: the Transaction of a trade has currency USD and as amount
\* +QUANTITY*PRICE when bought, -QUANTITY*PRICE when sold, rounded to two
\* decimals; its Stock has the symbol and the direction of the subject, the
\* quantity rounded to six decimals and the unit price rounded to four;
\* "BOUGHT 10 AAPL @ 150.50" gives 1505.00 and AAPL, 10, 150.50.
C19_TradeAmountsRounded ==
    \A k \in 1..Len(txs) :
        LET m == msgs[txs[k].msg]
            w == TradeWritten(m.raw.subject)
            value == DecMul(w[2], w[4])
        IN  Route(m) = "ibkr"
            => /\ w # <<>>
               /\ txs[k].currency = "USD"
               /\ RoundedTo(txs[k].amount,
                            IF w[1] THEN value ELSE Dec(TRUE, value.n, value.e),
                            2)
               /\ \E n \in RowsFrom(stocks, txs[k].msg) :
                     /\ stocks[n].transaction = k
                     /\ stocks[n].symbol = w[3]
                     /\ stocks[n].bought = w[1]
                     /\ RoundedTo(stocks[n].amount, w[2], 6)
                     /\ RoundedTo(stocks[n].unitprice, w[4], 4)
               /\ m.raw.subject = "BOUGHT 10 AAPL @ 150.50"
                    => /\ DecStr(txs[k].amount) = "1505.00"
                       /\ \E n \in RowsFrom(stocks, txs[k].msg) :
                             /\ DecStr(stocks[n].amount) = "10"
                             /\ DecStr(stocks[n].unitprice) = "150.50"

\* a sale of a fraction of a share was stored, its value rounded to cents
C19_Witness ==
    \E k \in 1..Len(txs) :
        /\ msgs[txs[k].msg].raw.subject = "SOLD 5.5 MSFT @ 300.25"
        /\ txs[k].amount = Dec(TRUE, 165138, 2)
        /\ \E n \in RowsFrom(stocks, txs[k].msg) :
              /\ stocks[n].symbol = "MSFT" /\ ~stocks[n].bought
              /\ stocks[n].amount = D(55, 1)
              /\ stocks[n].unitprice = D(30025, 2)

\* the amounts the Total Pesos texts write and the codes of the labels
TotalWritten(t) ==
    IF t = "1.234,56" THEN <<D(123456, 2)>>
    ELSE IF t = "500" THEN <<D(500, 0)>>
    ELSE IF t = "1.000.000,00" THEN <<D(100000000, 2)>>
    ELSE IF t = "99,90" THEN <<D(9990, 2)>>
    ELSE IF t = "12,5" THEN <<D(125, 1)>>
    ELSE <<>>
CodeOfLabel(l) ==
    IF l \in {"Do'lares", "usd"} THEN "USD" ELSE "UYU"

\* C20: the Transaction of a mobile-wallet alert has the amount its text
\* writes with the period as thousands separator and the comma as decimal
\* separator, negative for a reload and positive for a consumption or a
\* transfer, and the 3-letter code of its currency label, UYU when the label
\* is unknown or absent; a reload of "1.234,56" "Pesos Uruguayos" gives
\* -1234.56 UYU.
C20_LocalizedAmount ==
    \A k \in 1..Len(txs) :
        LET m == msgs[txs[k].msg]
            w == TotalWritten(m.raw.text)
            reload == MidineroKind(m.subject) = "reload"
        IN  Route(m) = "midinero"
            => /\ w # <<>>
               /\ SameValue(txs[k].amount,
                            IF reload THEN Dec(TRUE, w[1].n, w[1].e) ELSE w[1])
               /\ txs[k].currency = CodeOfLabel(m.raw.moneda)
               /\ (reload /\ m.raw.text = "1.234,56"
                   /\ m.raw.moneda = "Pesos Uruguayos")
                    => /\ DecStr(txs[k].amount) = "-1234.56"
                       /\ txs[k].currency = "UYU"

\* the reload of the example was stored
C20_Witness ==
    \E k \in 1..Len(txs) :
        /\ Route(msgs[txs[k].msg]) = "midinero"
        /\ MidineroKind(msgs[txs[k].msg].subject) = "reload"
        /\ msgs[txs[k].msg].raw.text = "1.234,56"
        /\ txs[k].amount = Dec(TRUE, 123456, 2) /\ txs[k].currency = "UYU"

\* the amounts the bodies of the bank alerts write after "direct deposit of"
\* and after "bill payment of"
DepositWritten(body) ==
    IF body \in {"You have a direct deposit of $1,200.00",
                 "You have a direct deposit of $1,200.00."}
      THEN <<D(120000, 2)>>
    ELSE IF body = "you have a direct deposit of <b>$75</b> today"
      THEN <<D(75, 0)>>
    ELSE IF body = "You have a direct deposit of $50\nYour bill payment of $45.10 to Gas Co"
      THEN <<D(50, 0)>>
    ELSE <<>>
PaymentWritten(body) ==
    IF body = "Your bill payment of $45.10 to City Power\nThank you"
      THEN <<D(4510, 2), "City Power">>
    ELSE IF body = "You have a direct deposit of $50\nYour bill payment of $45.10 to Gas Co"
      THEN <<D(4510, 2), "Gas Co">>
    ELSE <<>>

\* C21: the Transaction of a bank alert whose body has the direct-deposit
\* sentence has the deposit as a negative amount and the description
\* "DIRECT DEPOSIT"; with the bill-payment sentence only it has the payment
\* as a positive amount and the description "BILL PAYMENT: <merchant>"; the
\* first dollar amount of the body and the subject are used only when the
\* body has neither sentence; the currency is USD and the source "chase".
C21_ChasePatterns ==
    \A k \in 1..Len(txs) :
        LET m == msgs[txs[k].msg]
            deposit == DepositWritten(m.raw.text)
            payment == PaymentWritten(m.raw.text)
        IN  Route(m) = "chase"
            => /\ txs[k].currency = "USD" /\ txs[k].source = "chase"
               /\ deposit # <<>>
                    => /\ txs[k].amount = Dec(TRUE, deposit[1].n, deposit[1].e)
                       /\ txs[k].description = "DIRECT DEPOSIT"
               /\ (deposit = <<>> /\ payment # <<>>)
                    => /\ txs[k].amount = payment[1]
                       /\ txs[k].description = "BILL PAYMENT: " \o payment[2]
               /\ (deposit = <<>> /\ payment = <<>>)
                    => txs[k].description = m.raw.subject

\* the card network of the BIN ranges for a run of leading digits
BinNetwork(lead) ==
    LET p(n) == IF Len(lead) >= n THEN DigitsInt(SubSeq(lead, 1, n)) ELSE 0
    IN  IF lead[1] = 4 THEN "visa"
        ELSE IF p(2) \in 51..55 \/ p(4) \in 2221..2720 THEN "mastercard"
        ELSE IF p(2) \in {34, 37} THEN "amex"
        ELSE IF \/ p(4) = 6011 \/ p(2) = 65 \/ p(3) \in 644..649
                \/ p(6) \in 622126..622925
          THEN "discover"
        ELSE "unknown"

\* C22: the source of the Transaction of a security-code alert that shows a
\* masked card number is "<network>:<last 4 digits>", the network being the
\* one the BIN ranges give for the digits left unmasked before the
\* asterisks, be they 4, 5 or 6; leading digits 4111 give "visa".
C22_CardNetwork ==
    \A k \in 1..Len(txs) :
        LET m == msgs[txs[k].msg]
        IN  (Route(m) = "alignet" /\ m.raw.card # <<>>)
            => /\ txs[k].source
                    = BinNetwork(m.raw.card[1]) \o ":" \o m.raw.card[2]
               /\ m.raw.card[1] = <<4, 1, 1, 1>>
                    => txs[k].source = "visa:" \o m.raw.card[2]

\* the rows of `before` are the first rows of `after`, unchanged
KeepsRows(before, after) ==
    /\ Len(before) <= Len(after)
    /\ \A k \in 1..Len(before) : after[k] = before[k]

\* C23: every step keeps each existing Transaction, PositionRecord and
\* PendingDuplicate as it is (the tables only grow), and changes no
\* RawMessage other than the one a run is handling in that step.
C23_OnlyGrow ==
    [][ /\ KeepsRows(txs, txs')
        /\ KeepsRows(stocks, stocks')
        /\ KeepsRows(pendings, pendings')
        /\ Len(msgs) <= Len(msgs')
        /\ \A i \in 1..Len(msgs) :
              msgs'[i] # msgs[i]
              => \E w \in Workers : /\ pc[w] = "running" /\ qs[w] # <<>>
                                   /\ Head(qs[w]) = i ]_vars

\* a trade was stored, then another message was handled and stored as a
\* Transaction while the Transaction and the PositionRecord of the trade
\* existed
C23_Witness ==
    \E i, j \in 1..Len(msgs) :
        /\ i # j /\ log[i] # <<>> /\ log[j] # <<>>
        /\ log[j][1].at < log[i][1].at
        /\ log[j][1].dtx = 1 /\ log[j][1].dstock = 1
        /\ log[i][1].dtx = 1
        /\ RowsFrom(txs, j) # {} /\ RowsFrom(stocks, j) # {}
        /\ RowsFrom(txs, i) # {}

\* a trade of more shares than Stock.amount holds (eight integer digits): its
\* Transaction is inserted, its PositionRecord is refused
TooManyShares(m) ==
    /\ Route(m) = "ibkr" /\ m.raw.malformed = 0 /\ m.raw.trade # <<>>
    /\ m.raw.trade[2].n >= StockAmountLimit * Pow10(m.raw.trade[2].e)

DatedWalletAlert(m) ==
    /\ Route(m) = "midinero" /\ m.raw.malformed = 0
    /\ MidineroAddr \in m.raw.fromHdr \cup m.raw.bodyAddrs
    /\ MidineroKind(m.subject) # "none"
    /\ m.raw.total # <<>> /\ m.raw.total[1].n # 0
    /\ m.raw.fecha # 0

\* C25: a handled mobile-wallet alert with an amount, a currency and a
\* transaction date of its own was counted and has a Transaction dated with
\* that date (not with the date of the message), or a PendingDuplicate.
C25_ParsedDate ==
    \A h \in Handled :
        LET i == h[1]
        IN  DatedWalletAlert(msgs[i])
            => /\ Entry(h).ret = 1
               /\ \/ \E k \in RowsFrom(txs, i) :
                        txs[k].date = msgs[i].raw.fecha
                  \/ RowsFrom(pendings, i) # {}

\* m alone yields a candidate with a Message-ID as external id whose inserts
\* do not fail
StoredWhenAlone(m) ==
    /\ m.raw.mid # ""
    /\ ~CandidateOf(m).final
    /\ ~CandidateOf(m).isPlainDate
    /\ ~TooManyShares(m)

\* C26: when two handled messages of different owners yield candidates with
\* the same non-empty external id, and neither owner has another message
\* with that external id, each of the two has a confirmed Transaction of its
\* owner with that external id and neither has a PendingDuplicate.
C26_OwnerScoped ==
    \A i, j \in MsgIds :
        ( /\ i # j /\ log[i] # <<>> /\ log[j] # <<>>
          /\ msgs[i].user # msgs[j].user
          /\ msgs[i].raw.mid = msgs[j].raw.mid
          /\ StoredWhenAlone(msgs[i]) /\ StoredWhenAlone(msgs[j])
          /\ \A k \in MsgIds \ {i, j} : msgs[k].raw.mid # msgs[i].raw.mid )
        => \A n \in {i, j} :
              /\ \E k \in RowsFrom(txs, n) :
                    /\ txs[k].status = "confirmed"
                    /\ txs[k].user = msgs[n].user
                    /\ txs[k].external_id = msgs[n].raw.mid
              /\ RowsFrom(pendings, n) = {}
              /\ ~log[n][1].raised /\ msgs[n].processing_error = ""

\* two card-network alerts with the same Message-ID, one of each owner, were
\* handled one after the other and both are stored
C26_Witness ==
    \E i, j \in MsgIds :
        /\ msgs[i].user = "u1" /\ msgs[j].user = "u2"
        /\ msgs[i].raw.mid = msgs[j].raw.mid /\ msgs[i].raw.mid # ""
        /\ Route(msgs[i]) = "visa" /\ Route(msgs[j]) = "visa"
        /\ RowsFrom(txs, i) # {} /\ RowsFrom(txs, j) # {}
        /\ txs[Leftmost(RowsFrom(txs, i))].external_id
             = txs[Leftmost(RowsFrom(txs, j))].external_id

\* C27: the value a run returned is the number of the messages it stamped
\* that have an empty processing_error, and no message it counted has a
\* processing_error, a forwarding confirmation whose handling failed included.
C27_CountIsClean ==
    \A w \in Workers :
        (pc[w] = "idle" /\ ret[w] # -1)
        => /\ ret[w] = Cardinality({i \in sel[w] :
                                      /\ Processed(i)
                                      /\ msgs[i].processing_error = ""})
           /\ \A i \in Counted(w) : msgs[i].processing_error = ""

\* the text s begins with the text t
StartsWith(s, t) == Len(s) >= Len(t) /\ SubSeq(s, 1, Len(t)) = t

\* C28: every Transaction and every PositionRecord has a non-empty external
\* id: the Message-ID of its message, or, when the message has none, an
\* identifier the parser of its handler generated ("<parser>:...").
C28_ExternalIdSet ==
    /\ \A k \in 1..Len(txs) :
          LET m == msgs[txs[k].msg]
          IN  /\ txs[k].external_id # ""
              /\ IF m.raw.mid # "" THEN txs[k].external_id = m.raw.mid
                 ELSE StartsWith(txs[k].external_id, Route(m) \o ":")
    /\ \A n \in 1..Len(stocks) :
          LET m == msgs[stocks[n].msg]
          IN  /\ stocks[n].external_id # ""
              /\ IF m.raw.mid # "" THEN stocks[n].external_id = m.raw.mid
                 ELSE StartsWith(stocks[n].external_id, "ibkr:")

\* a trade and a card-network alert without Message-ID were stored
C28_Witness ==
    /\ \E n \in 1..Len(stocks) :
          /\ msgs[stocks[n].msg].raw.mid = ""
          /\ stocks[n].external_id = "ibkr:BOUGHT:AAPL:10:150.50"
    /\ \E k \in 1..Len(txs) :
          /\ msgs[txs[k].msg].raw.mid = ""
          /\ Route(msgs[txs[k].msg]) = "visa"

\* what the parser of the handler of m returns
ParsedOf(m) ==
    IF Route(m) = "chase" THEN parse_chase_alert(m.raw)
    ELSE IF Route(m) = "visa" THEN parse_visa_alert(m.raw)
    ELSE IF Route(m) = "alignet" THEN parse_alignet_alert(m.raw)
    ELSE parse_midinero_alert(m.raw, m.subject)

\* C29: a handled bank, card-network, point-of-sale or mobile-wallet alert
\* whose candidate has an amount, zero included, and a currency has a
\* Transaction or a PendingDuplicate, and "Missing amount" is recorded only
\* for a candidate without amount or without currency.  (Stated for a
\* message that is the only one of its owner with its external id, that
\* carries no transaction date of its own and, for the card network, that
\* comes from its address.)
C29_ParsedAmountStored ==
    \A h \in Handled :
        LET i == h[1]
            m == msgs[i]
            p == ParsedOf(m)
        IN  ( /\ Route(m) \in {"chase", "visa", "alignet", "midinero"}
              /\ p.tag = "ok"
              /\ m.raw.fecha = 0
              /\ ~(Route(m) = "visa" /\ NotFromVisa(m))
              /\ \A j \in MsgIds \ {i} :
                    msgs[j].user # m.user \/ msgs[j].raw.mid # m.raw.mid )
            => /\ (p.c.amount # <<>> /\ p.c.currency # "")
                    => RowsFrom(txs, i) # {} \/ RowsFrom(pendings, i) # {}
               /\ msgs[i].processing_error
                    \in {"Missing amount", "Missing amount or currency"}
                    => p.c.amount = <<>> \/ p.c.currency = ""

\* C30: also when two runs overlap and both select message i, the message
\* has at most one Transaction and at most one PositionRecord, and once both
\* runs have handled it, it carries no processing error exactly when a
\* Transaction or a PendingDuplicate of it exists.
C30_OnePerMessage ==
    \A i \in MsgIds :
        /\ Cardinality(RowsFrom(txs, i)) <= 1
        /\ Cardinality(RowsFrom(stocks, i)) <= 1
        /\ (i \in sel[1] \cap sel[2] /\ HandledBy(1, i) /\ HandledBy(2, i))
              => (msgs[i].processing_error = ""
                    <=> RowsFrom(txs, i) \cup RowsFrom(pendings, i) # {})

====
